---- MODULE Spec2Model ----
(***************************************************************************)
(* State-machine model of the dublyo/mcp-gateway: the tenant registry and  *)
(* its configuration swap (internal/gateway), the credential verifier, the *)
(* sliding-window rate limiter and the session counter, and the HTTP       *)
(* transports with their SSE sessions (internal/server) on top of the      *)
(* JSON-RPC handler (internal/mcp).                                        *)
(*                                                                         *)
(* Go objects reached through pointers (Connection, Session) are cells     *)
(* of the sequences conns and sess; a pointer is an index, Nil is 0.       *)
(* Byte strings (pepper, credentials) are sequences of small naturals, so  *)
(* that pepper + apiKey is real concatenation.  Time is an integer number  *)
(* of seconds.                                                             *)
(***************************************************************************)
EXTENDS Integers, Sequences, FiniteSets, TLC

(* ------------------------------ bounds --------------------------------- *)
\* request-handling goroutines that may run at the same time
NumProcs == 2
\* the clock stops here
MaxTime == 60
\* seconds the clock advances in one Tick
TickStep == 30
\* requests routed to a tenant in one behaviour
MaxReqs == 3
\* configurations applied in one behaviour
MaxApplies == 2
\* Connection objects allocated in one behaviour
MaxConns == 3
\* Session objects allocated in one behaviour
MaxSess == 2
\* events the writer loop of one session writes in one behaviour
MaxOut == 2

(* ------------------------- program constants --------------------------- *)
\* time.Minute, in seconds
Minute == 60
DefaultRateLimit == 60
DefaultMaxConcurrency == 10
\* capacity of Session.Messages
MessagesCap == 64
\* the body cap of the two JSON-RPC entry points, and the read buffer
BodyLimit == 1048576
BufSize == 4096
StatusOK == 200
StatusAccepted == 202
StatusNoContent == 204
StatusBadRequest == 400
StatusUnauthorized == 401
StatusNotFound == 404
StatusRequestEntityTooLarge == 413
StatusNotModified == 304
StatusForbidden == 403
StatusInternalServerError == 500
StatusTooManyRequests == 429
StatusServiceUnavailable == 503
ParseError == -32700
InvalidRequest == -32600
MethodNotFound == -32601
InvalidParams == -32602
InternalError == -32603

Nil == 0
Procs == 1..NumProcs
ProtocolVersion == "2024-11-05"

(* ------------------------------ helpers -------------------------------- *)
\* hex(sha256(b)): an injective image of the byte string, never empty
Sha256Hex(b) == <<Len(b)>> \o b

\* subtle.ConstantTimeCompare: 1 iff same length and same bytes
ConstantTimeCompare(a, b) == IF Len(a) = Len(b) /\ a = b THEN 1 ELSE 0

\* the digest VerifyAPIKey computes from the pepper and the presented key
ComputedHash(pep, apiKey) == Sha256Hex(pep \o apiKey)

(* --------------------- configuration (control plane) ------------------- *)
\* PrevKeyExpiry is a string: empty, an RFC3339 instant, or anything else
ExpiryEmpty == [kind |-> "empty", t |-> 0]
ExpiryGarbage == [kind |-> "garbage", t |-> 0]
ExpiryAt(t) == [kind |-> "rfc3339", t |-> t]

\* time.Parse(time.RFC3339, s)
ParseRFC3339(s) == [err |-> s.kind # "rfc3339", t |-> s.t]

\* profiles.Get: the profiles the registry knows
KnownProfiles == {"math", "dns"}
\* a faulty variant of ProfileGet: every selector is taken for a known profile
ProfileGetAny(id) == TRUE

ProfileGet(id) == id \in KnownProfiles

ConnectionConfig(id, domain, profile, hash, prev, expiry, enabled, env, rl, mc) ==
  [ID |-> id, Domain |-> domain, Profile |-> profile, APIKeyHash |-> hash,
   PrevKeyHash |-> prev, PrevKeyExpiry |-> expiry, Enabled |-> enabled,
   EnvVars |-> env, RateLimit |-> rl, MaxConcurrency |-> mc]

GatewayConfig(pep, ver, ccs) == [Pepper |-> pep, Version |-> ver, Connections |-> ccs]

Hosts == {"a", "b", "x"}

\* peppers and credentials used by the sample configurations
Pepper1 == <<5>>
Pepper2 == <<5, 1>>
KeyOld == <<1>>
KeyNew == <<2>>
KeyB == <<3>>
KeyWrong == <<9>>

(* ------------------- JSON-RPC frames and responses -------------------- *)
\* a request id as decoded into interface{}: absent (nil), a number or a string
IdNull == [t |-> "null", v |-> 0]
IdInt(n) == [t |-> "int", v |-> n]
IdStr(x) == [t |-> "string", v |-> x]

\* A frame is the POSTed body.  json: "object" (decodes into JSONRPCRequest),
\* "mistyped" (a JSON object whose fields do not fit the struct) or "invalid";
\* hasID: the object has an "id" key; pv: params.protocolVersion ("" when absent);
\* params: "ok" or "bad" (params that do not decode into ToolCallParams);
\* toolErr: the profile's CallTool returns an error.
\* The body is len bytes long and arrives in reads of chunk bytes (the last
\* one shorter); eofWithData: the last read returns its bytes together with
\* io.EOF, otherwise a further read returns (0, io.EOF).
Frame(json, hasID, id, jsonrpc, method, pv, params, toolErr) ==
  [json |-> json, hasID |-> hasID, id |-> id, jsonrpc |-> jsonrpc, method |-> method,
   pv |-> pv, params |-> params, toolErr |-> toolErr,
   len |-> 1, chunk |-> BufSize, eofWithData |-> TRUE, hasPV |-> pv # ""]

\* the same frame whose params carry "protocolVersion" or not (an empty
\* string that is carried decodes like an absent one)
WithVersion(f, hasPV) == [f EXCEPT !.hasPV = hasPV]

\* the same frame with another body length and another way of arriving
WithBody(f, len, chunk, eofWithData) ==
  [f EXCEPT !.len = len, !.chunk = chunk, !.eofWithData = eofWithData]

\* the body loop: n, err := r.Body.Read(buf); append; break on err; then
\* the check len(body) > 1MB.  The k-th Read brings the body to Got(k) bytes;
\* the last Read that returns bytes reports io.EOF with them when
\* eofWithData, else the Read after it reports io.EOF with no bytes.
\* TRUE: the loop ended at the err and the body was read, FALSE: 413
ReadBody(f) ==
  LET reads == (f.len + f.chunk - 1) \div f.chunk
      Got(k) == IF k * f.chunk < f.len THEN k * f.chunk ELSE f.len
      Err(k) == k = reads /\ f.eofWithData
  IN ~\E k \in 1..reads : ~Err(k) /\ Got(k) > BodyLimit

NoFrame == Frame("none", FALSE, IdNull, "", "", "", "ok", FALSE)

\* *JSONRPCResponse; kind "none" is the nil pointer
Response(kind, id, code, result, isError) ==
  [kind |-> kind, ID |-> id, code |-> code, result |-> result, isError |-> isError]
\* the Result field: absent, map[string]interface{}{}, InitializeResult,
\* ToolsListResult and ToolCallResult with its content blocks
NoResult == [type |-> "none"]
EmptyObject == [type |-> "object"]
InitializeResult ==
  [type |-> "InitializeResult", ProtocolVersion |-> ProtocolVersion,
   Capabilities |-> [Tools |-> EmptyObject],
   ServerInfo |-> [Name |-> "dublyo-mcp-gateway", Version |-> "1.0.0"]]
ToolsListResult == [type |-> "ToolsListResult"]
TextBlock(text) == [Type |-> "text", Text |-> text]
ToolCallResult(content, isError) ==
  [type |-> "ToolCallResult", Content |-> content, IsError |-> isError]

NoResponse == Response("none", IdNull, 0, NoResult, FALSE)
ErrorResponse(id, code) == Response("error", id, code, NoResult, FALSE)
ResultResponse(id, result, isError) == Response("result", id, 0, result, isError)

(* ---------------------------- state ------------------------------------ *)
VARIABLES
  now,          \* the wall clock (time.Now), seconds
  pepper,       \* Gateway.pepper
  version,      \* Gateway.version
  connections,  \* Gateway.connections: domain -> *Connection
  conns,        \* the Connection objects: Config, env, requests, sessions
  metrics,      \* Gateway.metrics: connection id -> Metrics
  sessions,     \* Server.sessions: session id -> *Session
  sess,         \* the Session objects: ID, ConnID, Messages, done
  rq,           \* the request-handling goroutines
  applied,      \* history: the configurations applied, and whether live state was carried over
  admitted,     \* history: per Connection object, the times CheckRateLimit admitted at
  nreq,         \* requests started
  napply,       \* configurations applied
  poller,       \* the Poller: token, failures
  wire,         \* history: the Poller's last request and the response to it,
                \* the token announced last, and the number of its ticks
  lk            \* the mutexes g.mu, g.metricsMu and conn.mu, and each goroutine's
                \* position in the call it is making

vars == <<now, pepper, version, connections, conns, metrics, sessions, sess, rq,
          applied, admitted, nreq, napply, poller, wire, lk>>

\* gateway tokens: os.Getenv("GATEWAY_TOKEN") and two later ones
EnvToken == <<7>>
Token1 == <<7, 1>>
Token2 == <<7, 2>>
\* the empty header value
NoToken == <<>>

\* the sync ticks and metrics ticks of the Poller that are followed
MaxTicks == 3

\* NewPoller: the token of the environment, no failure counted
NewPoller == [token |-> EnvToken, failures |-> 0]

\* no request sent yet, no response received yet
NoRequest == [kind |-> "none"]
NoReply == [kind |-> "none"]

ZeroMetrics == [RequestCount |-> 0, ErrorCount |-> 0, AuthFailures |-> 0,
                Latencies |-> <<>>, LastRequestAt |-> -1]

\* gateway.New, server.New, and no request in flight
IdleReq == [pc |-> "idle", host |-> "", route |-> "", auth |-> [scheme |-> "", cred |-> <<>>],
            sid |-> <<>>, frame |-> NoFrame, conn |-> Nil, pepper |-> <<>>, limit |-> 0,
            seenKey |-> <<>>, seenPrev |-> <<>>, seenExpiry |-> ExpiryEmpty, seenNow |-> -1,
            seenRate |-> -1, ok |-> FALSE,
            session |-> Nil, resp |-> NoResponse, body |-> FALSE, status |-> 0,
            handled |-> 0, decs |-> 0]

\* the Poller's two jobs, and the goroutine each runs in
Jobs == {"syncConfig", "reportMetrics"}

PollerProc == NumProcs + 1

\* a Poller that gave each of its tickers a goroutine of its own
GoroutinePerTicker(job) == IF job = "reportMetrics" THEN PollerProc + 1 ELSE PollerProc

\* Poller.Start: the one loop selects between syncTicker and metricsTicker, so
\* syncConfig and reportMetrics run in the same goroutine, one after the other
GoroutineOf(job) == PollerProc

\* the goroutines that take the gateway's locks
Lockers == Procs \cup {GoroutineOf(job) : job \in Jobs}

\* sync.RWMutex g.mu (writer, writers waiting, readers), sync.Mutex g.metricsMu
\* and conn.mu (the holder, Nil when free); what is left of each goroutine's call
\* and its locals (the entry *m it has read, the reports slice); and history:
\* per connection id, the events recorded and the deltas put into reports
NoLocks ==
  [mu |-> [w |-> Nil, pend |-> {}, r |-> {}],
   metricsMu |-> Nil,
   conn |-> [c \in 1..MaxConns |-> Nil],
   prog |-> [q \in Lockers |-> <<>>],
   loaded |-> [q \in Lockers |-> ZeroMetrics],
   reports |-> {},
   rec |-> <<>>,
   rep |-> <<>>]

Init ==
  /\ now = 0
  /\ pepper = <<>>
  /\ version = 0
  /\ connections = [d \in Hosts |-> Nil]
  /\ conns = <<>>
  /\ metrics = <<>>
  /\ sessions = <<>>
  /\ sess = <<>>
  /\ rq = [p \in Procs |-> IdleReq]
  /\ applied = {}
  /\ admitted = [c \in 1..MaxConns |-> <<>>]
  /\ nreq = 0
  /\ napply = 0
  /\ poller = NewPoller
  /\ wire = [req |-> NoRequest, resp |-> NoReply, tok |-> EnvToken, ticks |-> 0]
  /\ lk = NoLocks

(* ------------------------ Gateway.ApplyConfig -------------------------- *)
\* Handler.UpdateEnvVars: the handler's environment snapshot is replaced
UpdateEnvVars(c, env) == [c EXCEPT !.env = env]

\* &Connection{Config: cc, Handler: mcp.NewHandler(profile, cc.EnvVars)}
NewConnection(cc) == [Config |-> cc, env |-> cc.EnvVars, requests |-> <<>>, sessions |-> 0]

\* a faulty variant of ReuseConnection: the rate window starts anew with the
\* configuration
ReuseConnectionNoWindow(c, cc) ==
  UpdateEnvVars([c EXCEPT !.Config = cc, !.requests = <<>>], cc.EnvVars)

\* a faulty variant of ReuseConnection: the live state is rebuilt on every apply
ReuseConnectionFresh(c, cc) == NewConnection(cc)

\* the reuse branch: existing.Config = cc; existing.Handler.UpdateEnvVars(cc.EnvVars)
ReuseConnection(c, cc) == UpdateEnvVars([c EXCEPT !.Config = cc], cc.EnvVars)

\* if _, ok := g.metrics[cc.ID]; !ok { g.metrics[cc.ID] = &Metrics{} }
EnsureMetrics(m, id) == IF id \in DOMAIN m THEN m ELSE m @@ (id :> ZeroMetrics)

RECURSIVE ApplyLoop(_, _, _)
\* the loop over cfg.Connections; st = [newConns, heap, metrics]
ApplyLoop(ccs, i, st) ==
  IF i > Len(ccs) THEN st
  ELSE
    LET cc == ccs[i]
        existing == connections[cc.Domain]
    IN IF ~cc.Enabled THEN ApplyLoop(ccs, i + 1, st)
       ELSE IF existing # Nil /\ st.heap[existing].Config.Profile = cc.Profile
       THEN ApplyLoop(ccs, i + 1,
              [newConns |-> [st.newConns EXCEPT ![cc.Domain] = existing],
               heap |-> [st.heap EXCEPT ![existing] = ReuseConnection(@, cc)],
               metrics |-> EnsureMetrics(st.metrics, cc.ID)])
       ELSE IF ~ProfileGet(cc.Profile) THEN ApplyLoop(ccs, i + 1, st)
       ELSE ApplyLoop(ccs, i + 1,
              [newConns |-> [st.newConns EXCEPT ![cc.Domain] = Len(st.heap) + 1],
               heap |-> Append(st.heap, NewConnection(cc)),
               metrics |-> EnsureMetrics(st.metrics, cc.ID)])

\* history only: this apply reuses a Connection that has admissions in its window
\* and sessions attached
CarriesLiveState(cfg) ==
  \E i \in 1..Len(cfg.Connections) :
    LET cc == cfg.Connections[i]
        existing == connections[cc.Domain]
    IN /\ cc.Enabled
       /\ existing # Nil
       /\ conns[existing].Config.Profile = cc.Profile
       /\ conns[existing].requests # <<>>
       /\ conns[existing].sessions > 0

ApplyResult(cfg) ==
  ApplyLoop(cfg.Connections, 1,
            [newConns |-> [d \in Hosts |-> Nil], heap |-> conns, metrics |-> metrics])

\* the whole of ApplyConfig, under g.mu.Lock
ApplyConfigCall(cfg) ==
  /\ napply < MaxApplies
  /\ Len(ApplyResult(cfg).heap) <= MaxConns
  /\ pepper' = cfg.Pepper
  /\ version' = cfg.Version
  /\ connections' = ApplyResult(cfg).newConns
  /\ conns' = ApplyResult(cfg).heap
  /\ metrics' = ApplyResult(cfg).metrics
  /\ applied' = applied \cup {[cfg |-> cfg, carried |-> CarriesLiveState(cfg)]}
  /\ napply' = napply + 1
  /\ UNCHANGED <<now, sessions, sess, rq, admitted, nreq, lk>>

\* a sync tick of which only the configuration it applies is of interest
ApplyConfig(cfg) == ApplyConfigCall(cfg) /\ UNCHANGED <<poller, wire>>

(* ------------------------------ the clock ------------------------------ *)
Tick ==
  /\ now + TickStep <= MaxTime
  /\ now' = now + TickStep
  /\ UNCHANGED <<pepper, version, connections, conns, metrics, sessions, sess, rq,
                 applied, admitted, nreq, napply, poller, wire, lk>>

(* ------------------- Server.handleRequest (routing) -------------------- *)
Routes == {"GET /sse", "POST /message", "POST /mcp", "GET /mcp", "DELETE /mcp", "GET /other"}
AuthRoutes == {"GET /sse", "POST /message", "POST /mcp", "GET /mcp"}

\* Gateway.GetConnection, under g.mu.RLock
GetConnection(domain) == connections[domain]

\* a request that has been answered: only what was observable of it is kept
Finished(r, status) ==
  [IdleReq EXCEPT !.pc = "done", !.status = status, !.route = r.route,
                  !.handled = r.handled, !.decs = r.decs, !.body = r.body]

\* a handler goroutine that died in a runtime panic (net/http recovers it and
\* drops the connection: nothing more is written)
Panicked(r) == [Finished(r, r.status) EXCEPT !.pc = "panic"]

\* handleRequest: tenant lookup by Host, then the switch on path and method
\* (budget is the number of requests the clients send in all)
StartRequestWithin(budget, p, host, route, auth, sid, frame) ==
  /\ rq[p].pc \in {"idle", "done", "panic"}
  /\ nreq < budget
  /\ nreq' = IF GetConnection(host) = Nil THEN nreq ELSE nreq + 1
  /\ LET conn == GetConnection(host)
         r == [IdleReq EXCEPT !.host = host, !.route = route, !.auth = auth,
                              !.sid = sid, !.frame = frame, !.conn = conn]
     IN rq' = [rq EXCEPT ![p] =
                 IF conn = Nil THEN Finished(r, StatusNotFound)
                 ELSE IF route \in AuthRoutes THEN [r EXCEPT !.pc = "auth"]
                 ELSE IF route = "DELETE /mcp" THEN [r EXCEPT !.pc = "del_load"]
                 ELSE Finished(r, StatusNotFound)]
  /\ UNCHANGED <<now, pepper, version, connections, conns, metrics, sessions, sess,
                 applied, admitted, napply, poller, wire, lk>>

StartRequest(p, host, route, auth, sid, frame) ==
  StartRequestWithin(MaxReqs, p, host, route, auth, sid, frame)

(* ------------------ Server.authenticateRequest ------------------------- *)
\* a faulty variant of RecordAuthFailure: the entry is made, the failure is not counted
RecordAuthFailureUncounted(m, connID) == EnsureMetrics(m, connID)

\* Gateway.RecordAuthFailure, under g.metricsMu
RecordAuthFailure(m, connID) ==
  [EnsureMetrics(m, connID) EXCEPT ![connID].AuthFailures = @ + 1]

\* auth == "" || !strings.HasPrefix(auth, "Bearer ")
NoBearer(auth) == auth.scheme # "Bearer"

\* the header check, and VerifyAPIKey's read of g.pepper under g.mu.RLock
AuthStart(p) ==
  /\ rq[p].pc = "auth"
  /\ rq' = [rq EXCEPT ![p] =
              IF NoBearer(@.auth) THEN [@ EXCEPT !.pc = "authfail"]
              ELSE [@ EXCEPT !.pc = "verify", !.pepper = pepper]]
  /\ UNCHANGED <<now, pepper, version, connections, conns, metrics, sessions, sess,
                 applied, admitted, nreq, napply, poller, wire, lk>>

\* subtle.ConstantTimeCompare(computed, conn.Config.APIKeyHash) == 1
PrimaryMatches(computed, cfg) == ConstantTimeCompare(computed, cfg.APIKeyHash) = 1

\* a faulty variant of PrevMatches: the grace period includes the expiry instant
PrevMatchesInclusive(computed, cfg, t) ==
  /\ cfg.PrevKeyHash # <<>>
  /\ cfg.PrevKeyExpiry # ExpiryEmpty
  /\ ~ParseRFC3339(cfg.PrevKeyExpiry).err
  /\ t <= ParseRFC3339(cfg.PrevKeyExpiry).t
  /\ ConstantTimeCompare(computed, cfg.PrevKeyHash) = 1

\* the previous-key branch: both strings set, the expiry parses, time.Now().Before(expiry),
\* and the constant-time comparison against conn.Config.PrevKeyHash succeeds
PrevMatches(computed, cfg, t) ==
  /\ cfg.PrevKeyHash # <<>>
  /\ cfg.PrevKeyExpiry # ExpiryEmpty
  /\ ~ParseRFC3339(cfg.PrevKeyExpiry).err
  /\ t < ParseRFC3339(cfg.PrevKeyExpiry).t
  /\ ConstantTimeCompare(computed, cfg.PrevKeyHash) = 1

\* VerifyAPIKey: the primary comparison (conn.Config is read without any lock)
VerifyPrimary(p) ==
  /\ rq[p].pc = "verify"
  /\ LET r == rq[p]
         cfg == conns[r.conn].Config
         computed == ComputedHash(r.pepper, r.auth.cred)
     IN rq' = [rq EXCEPT ![p] =
                 [@ EXCEPT !.pc = IF PrimaryMatches(computed, cfg) THEN "rate" ELSE "verify_prev",
                           !.ok = PrimaryMatches(computed, cfg),
                           !.seenKey = cfg.APIKeyHash]]
  /\ UNCHANGED <<now, pepper, version, connections, conns, metrics, sessions, sess,
                 applied, admitted, nreq, napply, poller, wire, lk>>

\* VerifyAPIKey: the previous key during its grace period
VerifyPrev(p) ==
  /\ rq[p].pc = "verify_prev"
  /\ LET r == rq[p]
         cfg == conns[r.conn].Config
         computed == ComputedHash(r.pepper, r.auth.cred)
     IN rq' = [rq EXCEPT ![p] =
                 [@ EXCEPT !.pc = IF PrevMatches(computed, cfg, now) THEN "rate" ELSE "authfail",
                           !.ok = PrevMatches(computed, cfg, now),
                           !.seenPrev = cfg.PrevKeyHash,
                           !.seenExpiry = cfg.PrevKeyExpiry,
                           !.seenNow = now]]
  /\ UNCHANGED <<now, pepper, version, connections, conns, metrics, sessions, sess,
                 applied, admitted, nreq, napply, poller, wire, lk>>

\* http.Error(w, "Unauthorized", 401); s.gw.RecordAuthFailure(conn.Config.ID)
AuthFail(p) ==
  /\ rq[p].pc = "authfail"
  /\ metrics' = RecordAuthFailure(metrics, conns[rq[p].conn].Config.ID)
  /\ rq' = [rq EXCEPT ![p] = Finished(@, StatusUnauthorized)]
  /\ UNCHANGED <<now, pepper, version, connections, conns, sessions, sess,
                 applied, admitted, nreq, napply, poller, wire, lk>>

(* ---------------------- Gateway.CheckRateLimit ------------------------- *)
\* limit := conn.Config.RateLimit; if limit <= 0 { limit = 60 }
RateLimitOf(cfg) == IF cfg.RateLimit <= 0 THEN DefaultRateLimit ELSE cfg.RateLimit

\* a faulty variant of ValidRequests: an entry that is exactly a minute old stays
ValidRequestsInclusive(requests, t) == SelectSeq(requests, LAMBDA u : u >= t - Minute)

\* the entries that stay: t.After(now.Add(-time.Minute))
ValidRequests(requests, t) == SelectSeq(requests, LAMBDA u : u > t - Minute)

\* a faulty variant of OverLimit: one request too many is let through
OverLimitOffByOne(valid, limit) == Len(valid) > limit

\* len(conn.requests) >= limit
OverLimit(valid, limit) == Len(valid) >= limit

\* the read of conn.Config.RateLimit, before conn.mu is taken
RateRead(p) ==
  /\ rq[p].pc = "rate"
  /\ rq' = [rq EXCEPT ![p] =
              [@ EXCEPT !.pc = "rate_locked",
                        !.limit = RateLimitOf(conns[rq[p].conn].Config),
                        !.seenRate = conns[rq[p].conn].Config.RateLimit]]
  /\ UNCHANGED <<now, pepper, version, connections, conns, metrics, sessions, sess,
                 applied, admitted, nreq, napply, poller, wire, lk>>

\* the critical section under conn.mu: trim, compare, append
RateDecide(p) ==
  /\ rq[p].pc = "rate_locked"
  /\ LET r == rq[p]
         valid == ValidRequests(conns[r.conn].requests, now)
     IN IF OverLimit(valid, r.limit)
        THEN /\ conns' = [conns EXCEPT ![r.conn].requests = valid]
             /\ rq' = [rq EXCEPT ![p] = Finished(@, StatusTooManyRequests)]
             /\ UNCHANGED admitted
        ELSE /\ conns' = [conns EXCEPT ![r.conn].requests = Append(valid, now)]
             /\ rq' = [rq EXCEPT ![p] = [@ EXCEPT !.pc = "route"]]
             /\ admitted' = [admitted EXCEPT ![r.conn] = Append(@, now)]
  /\ UNCHANGED <<now, pepper, version, connections, metrics, sessions, sess,
                 applied, nreq, napply, poller, wire, lk>>

(* ---------------------- mcp.Handler.HandleMessage ---------------------- *)
\* a faulty variant of ReqID: the id of the request is not carried over
ReqIDNull(f) == IdNull

\* req.ID after json.Unmarshal: nil when the key is absent
ReqID(f) == IF f.hasID THEN f.id ELSE IdNull

\* req.Params != nil, they decode into InitializeParams, and
\* params.ProtocolVersion != "" && params.ProtocolVersion != ProtocolVersion
VersionRefused(f) == f.params # "bad" /\ f.pv # "" /\ f.pv # ProtocolVersion

\* Handler.handleInitialize
HandleInitialize(f) ==
  IF VersionRefused(f)
  THEN ErrorResponse(ReqID(f), InvalidParams)
  ELSE ResultResponse(ReqID(f), InitializeResult, FALSE)

\* h.profile.CallTool(params.Name, params.Arguments, h.envVars)
CallTool(f) ==
  IF f.toolErr THEN [err |-> TRUE, text |-> "unknown tool"]
  ELSE [err |-> FALSE, text |-> "tool output"]

\* fmt.Sprintf("Error: %s", err.Error())
ErrorText(msg) == <<"Error: ", msg>>

\* a faulty variant of ToolFailure: the failure of the profile becomes a JSON-RPC error
ToolFailureAsError(f) == ErrorResponse(ReqID(f), InternalError)

\* the response to a tools/call whose CallTool returned an error
ToolFailure(f) ==
  ResultResponse(ReqID(f), ToolCallResult(<<TextBlock(ErrorText(CallTool(f).text))>>, TRUE), TRUE)

\* Handler.handleToolsCall
HandleToolsCall(f) ==
  IF f.params = "bad" THEN ErrorResponse(ReqID(f), InvalidParams)
  ELSE IF CallTool(f).err THEN ToolFailure(f)
  ELSE ResultResponse(ReqID(f), ToolCallResult(<<TextBlock(CallTool(f).text)>>, FALSE), FALSE)

\* Handler.HandleMessage
HandleMessage(f) ==
  IF f.json # "object" THEN ErrorResponse(IdNull, ParseError)
  ELSE IF f.jsonrpc # "2.0" THEN ErrorResponse(ReqID(f), InvalidRequest)
  ELSE CASE f.method = "initialize" -> HandleInitialize(f)
         [] f.method = "initialized" -> NoResponse
         [] f.method = "ping" -> ResultResponse(ReqID(f), EmptyObject, FALSE)
         [] f.method = "tools/list" -> ResultResponse(ReqID(f), ToolsListResult, FALSE)
         [] f.method = "tools/call" -> HandleToolsCall(f)
         [] f.method = "notifications/cancelled" -> NoResponse
         [] OTHER -> ErrorResponse(ReqID(f), MethodNotFound)

(* ------------------------ Gateway metrics ------------------------------ *)
\* the rolling latency window keeps the last LatencyCap samples
LatencyCap == 100

\* a faulty variant of RecordRequest: a full ring keeps its oldest samples
RecordRequestOldest(m, connID, latencyMs, isError, t) ==
  [EnsureMetrics(m, connID) EXCEPT
     ![connID].RequestCount = @ + 1,
     ![connID].LastRequestAt = t,
     ![connID].ErrorCount = IF isError THEN @ + 1 ELSE @,
     ![connID].Latencies =
        LET l == Append(@, latencyMs)
        IN IF Len(l) > LatencyCap THEN SubSeq(l, 1, LatencyCap) ELSE l]

\* Gateway.RecordRequest, under g.metricsMu
RecordRequest(m, connID, latencyMs, isError, t) ==
  [EnsureMetrics(m, connID) EXCEPT
     ![connID].RequestCount = @ + 1,
     ![connID].LastRequestAt = t,
     ![connID].ErrorCount = IF isError THEN @ + 1 ELSE @,
     ![connID].Latencies =
        LET l == Append(@, latencyMs)
        IN IF Len(l) > LatencyCap THEN SubSeq(l, Len(l) - LatencyCap + 1, Len(l)) ELSE l]

\* isError := response != nil && response.Error != nil
IsErrorResponse(resp) == resp.kind = "error"

(* -------------------- SSE transport: Server.handleSSE ------------------ *)
\* conn.Config.MaxConcurrency, 10 when unset
MaxConcurrencyOf(cfg) == IF cfg.MaxConcurrency <= 0 THEN DefaultMaxConcurrency ELSE cfg.MaxConcurrency

\* Gateway.CheckConcurrency, under conn.mu
CheckConcurrency(c) == c.sessions < MaxConcurrencyOf(c.Config)

\* generateSessionID: "s_%d_%d" of two clock readings, the second modulo 10000
GenerateSessionID(t1, t2) == <<t1, t2 % 10000>>

NoSessionID == <<>>

\* fmt.Sprintf("/message?sessionId=%s", sessionID)
MessageURL(id) == <<"/message?sessionId=", id>>

\* what the writer puts on the stream: "event: endpoint\ndata: <url>\n\n",
\* "event: message\ndata: <msg>\n\n" and the comment ": ping\n\n"
\* (EndpointEventNoID is a faulty variant of EndpointEvent: the id is left out)
EndpointEventNoID(id) == [event |-> "endpoint", data |-> MessageURL(NoSessionID)]
EndpointEvent(id) == [event |-> "endpoint", data |-> MessageURL(id)]
MessageEvent(msg) == [event |-> "message", data |-> msg]
PingComment == [event |-> "ping"]

\* &Session{ID, ConnID, Messages: make(chan []byte, 64), done: make(chan struct{})};
\* out is what the writer loop has written to the response stream
NewSession(id, connID) ==
  [ID |-> id, ConnID |-> connID, Messages |-> <<>>, done |-> FALSE, out |-> <<>>]

\* sync.Map Store, Load and Delete on Server.sessions
Store(m, k, v) == IF k \in DOMAIN m THEN [m EXCEPT ![k] = v] ELSE m @@ (k :> v)
Loaded(m, k) == k \in DOMAIN m
Delete(m, k) == [x \in DOMAIN m \ {k} |-> m[x]]

\* s.gw.CheckConcurrency(conn), else 503
SSECheck(p) ==
  /\ rq[p].pc = "route"
  /\ rq[p].route = "GET /sse"
  /\ rq' = [rq EXCEPT ![p] =
              IF CheckConcurrency(conns[@.conn]) THEN [@ EXCEPT !.pc = "sse_create"]
              ELSE Finished(@, StatusServiceUnavailable)]
  /\ UNCHANGED <<now, pepper, version, connections, conns, metrics, sessions, sess,
                 applied, admitted, nreq, napply, poller, wire, lk>>

\* the session is built and stored under its generated id
SSECreate(p) ==
  /\ rq[p].pc = "sse_create"
  /\ Len(sess) < MaxSess
  /\ LET id == GenerateSessionID(now, now)
     IN /\ sess' = Append(sess, NewSession(id, conns[rq[p].conn].Config.ID))
        /\ sessions' = Store(sessions, id, Len(sess) + 1)
        /\ rq' = [rq EXCEPT ![p] = [@ EXCEPT !.pc = "sse_inc", !.session = Len(sess) + 1]]
  /\ UNCHANGED <<now, pepper, version, connections, conns, metrics,
                 applied, admitted, nreq, napply, poller, wire, lk>>

\* Gateway.IncrementSessions, under conn.mu
SSEIncrement(p) ==
  /\ rq[p].pc = "sse_inc"
  /\ conns' = [conns EXCEPT ![rq[p].conn].sessions = @ + 1]
  /\ rq' = [rq EXCEPT ![p] = [@ EXCEPT !.pc = "sse_endpoint"]]
  /\ UNCHANGED <<now, pepper, version, connections, metrics, sessions, sess,
                 applied, admitted, nreq, napply, poller, wire, lk>>

\* the headers and the endpoint event, flushed
SSEEndpoint(p) ==
  /\ rq[p].pc = "sse_endpoint"
  /\ sess' = [sess EXCEPT ![rq[p].session].out = Append(@, EndpointEvent(sess[rq[p].session].ID))]
  /\ rq' = [rq EXCEPT ![p] = [@ EXCEPT !.pc = "sse_loop", !.status = StatusOK]]
  /\ UNCHANGED <<now, pepper, version, connections, conns, metrics, sessions,
                 applied, admitted, nreq, napply, poller, wire, lk>>

\* select: <-r.Context().Done(), the client went away
SSEClientGone(p) ==
  /\ rq[p].pc = "sse_loop"
  /\ rq' = [rq EXCEPT ![p] = [@ EXCEPT !.pc = "td_close"]]
  /\ UNCHANGED <<now, pepper, version, connections, conns, metrics, sessions, sess,
                 applied, admitted, nreq, napply, poller, wire, lk>>

\* select: <-session.done, the channel was closed
SSEDoneSeen(p) ==
  /\ rq[p].pc = "sse_loop"
  /\ sess[rq[p].session].done
  /\ rq' = [rq EXCEPT ![p] = [@ EXCEPT !.pc = "td_close"]]
  /\ UNCHANGED <<now, pepper, version, connections, conns, metrics, sessions, sess,
                 applied, admitted, nreq, napply, poller, wire, lk>>

\* a faulty variant of SSEWriteMessage: the newest pending payload is written
SSEWriteMessageNewest(p) ==
  /\ rq[p].pc = "sse_loop"
  /\ sess[rq[p].session].Messages # <<>>
  /\ LET q == sess[rq[p].session].Messages
     IN sess' = [sess EXCEPT ![rq[p].session] =
                   [@ EXCEPT !.Messages = SubSeq(q, 1, Len(q) - 1),
                             !.out = Append(@, MessageEvent(q[Len(q)]))]]
  /\ UNCHANGED <<now, pepper, version, connections, conns, metrics, sessions, rq,
                 applied, admitted, nreq, napply, poller, wire, lk>>

\* select: msg := <-session.Messages, written as a message event
SSEWriteMessage(p) ==
  /\ rq[p].pc = "sse_loop"
  /\ sess[rq[p].session].Messages # <<>>
  /\ sess' = [sess EXCEPT ![rq[p].session] =
                [@ EXCEPT !.Messages = Tail(@),
                          !.out = Append(@, MessageEvent(Head(sess[rq[p].session].Messages)))]]
  /\ UNCHANGED <<now, pepper, version, connections, conns, metrics, sessions, rq,
                 applied, admitted, nreq, napply, poller, wire, lk>>

\* select: <-keepAlive.C, a comment line is written
SSEKeepAlive(p) ==
  /\ rq[p].pc = "sse_loop"
  /\ Len(sess[rq[p].session].out) < MaxOut
  /\ sess' = [sess EXCEPT ![rq[p].session].out = Append(@, PingComment)]
  /\ UNCHANGED <<now, pepper, version, connections, conns, metrics, sessions, rq,
                 applied, admitted, nreq, napply, poller, wire, lk>>

\* the deferred teardown, first statement: close(session.done); closing a
\* closed channel panics and the rest of the deferred function is skipped
TeardownClose(p) ==
  /\ rq[p].pc = "td_close"
  /\ IF sess[rq[p].session].done
     THEN /\ rq' = [rq EXCEPT ![p] = Panicked(@)]
          /\ UNCHANGED sess
     ELSE /\ sess' = [sess EXCEPT ![rq[p].session].done = TRUE]
          /\ rq' = [rq EXCEPT ![p] = [@ EXCEPT !.pc = "td_delete"]]
  /\ UNCHANGED <<now, pepper, version, connections, conns, metrics, sessions,
                 applied, admitted, nreq, napply, poller, wire, lk>>

\* the deferred teardown, second statement: s.sessions.Delete(sessionID)
TeardownDelete(p) ==
  /\ rq[p].pc = "td_delete"
  /\ sessions' = Delete(sessions, sess[rq[p].session].ID)
  /\ rq' = [rq EXCEPT ![p] = [@ EXCEPT !.pc = "td_dec"]]
  /\ UNCHANGED <<now, pepper, version, connections, conns, metrics, sess,
                 applied, admitted, nreq, napply, poller, wire, lk>>

\* Gateway.DecrementSessions, under conn.mu
DecrementSessions(c) == IF c.sessions > 0 THEN [c EXCEPT !.sessions = @ - 1] ELSE c

\* a faulty variant of TeardownDecrement: the counter of the tenant that is
\* registered for the host now is decremented
TeardownDecrementCurrent(p) ==
  /\ rq[p].pc = "td_dec"
  /\ LET c == IF GetConnection(rq[p].host) = Nil THEN rq[p].conn
              ELSE GetConnection(rq[p].host)
     IN /\ conns' = [conns EXCEPT ![c] = DecrementSessions(@)]
        /\ rq' = [rq EXCEPT ![p] =
                    Finished([@ EXCEPT !.decs = @ + (conns[c].sessions
                                                     - DecrementSessions(conns[c]).sessions)],
                             StatusOK)]
  /\ UNCHANGED <<now, pepper, version, connections, metrics, sessions, sess,
                 applied, admitted, nreq, napply, poller, wire, lk>>

\* the deferred teardown, third statement: s.gw.DecrementSessions(conn)
TeardownDecrement(p) ==
  /\ rq[p].pc = "td_dec"
  /\ conns' = [conns EXCEPT ![rq[p].conn] = DecrementSessions(@)]
  /\ rq' = [rq EXCEPT ![p] =
              Finished([@ EXCEPT !.decs = @ + (conns[rq[p].conn].sessions
                                               - DecrementSessions(conns[rq[p].conn]).sessions)],
                       StatusOK)]
  /\ UNCHANGED <<now, pepper, version, connections, metrics, sessions, sess,
                 applied, admitted, nreq, napply, poller, wire, lk>>

(* ------------- Streamable HTTP: Server.handleStreamableDelete ---------- *)
\* the mcp-session-id header and s.sessions.Load
DeleteLoad(p) ==
  /\ rq[p].pc = "del_load"
  /\ rq' = [rq EXCEPT ![p] =
              IF @.sid # NoSessionID /\ Loaded(sessions, @.sid)
              THEN [@ EXCEPT !.pc = "del_close", !.session = sessions[rq[p].sid]]
              ELSE Finished(@, StatusNoContent)]
  /\ UNCHANGED <<now, pepper, version, connections, conns, metrics, sessions, sess,
                 applied, admitted, nreq, napply, poller, wire, lk>>

\* close(session.done)
DeleteClose(p) ==
  /\ rq[p].pc = "del_close"
  /\ IF sess[rq[p].session].done
     THEN /\ rq' = [rq EXCEPT ![p] = Panicked(@)]
          /\ UNCHANGED sess
     ELSE /\ sess' = [sess EXCEPT ![rq[p].session].done = TRUE]
          /\ rq' = [rq EXCEPT ![p] = [@ EXCEPT !.pc = "del_delete"]]
  /\ UNCHANGED <<now, pepper, version, connections, conns, metrics, sessions,
                 applied, admitted, nreq, napply, poller, wire, lk>>

\* s.sessions.Delete(sessionID); w.WriteHeader(204)
DeleteDelete(p) ==
  /\ rq[p].pc = "del_delete"
  /\ sessions' = Delete(sessions, rq[p].sid)
  /\ rq' = [rq EXCEPT ![p] = Finished(@, StatusNoContent)]
  /\ UNCHANGED <<now, pepper, version, connections, conns, metrics, sess,
                 applied, admitted, nreq, napply, poller, wire, lk>>

(* ------------- SSE transport: Server.handleSSEMessage ------------------ *)
\* the sessionId query parameter, s.sessions.Load, and the body loop
MsgLookup(p) ==
  /\ rq[p].pc = "route"
  /\ rq[p].route = "POST /message"
  /\ rq' = [rq EXCEPT ![p] =
              IF @.sid = NoSessionID THEN Finished(@, StatusBadRequest)
              ELSE IF ~Loaded(sessions, @.sid) THEN Finished(@, StatusNotFound)
              ELSE IF ~ReadBody(@.frame) THEN Finished(@, StatusRequestEntityTooLarge)
              ELSE [@ EXCEPT !.pc = "msg_handle", !.session = sessions[rq[p].sid]]]
  /\ UNCHANGED <<now, pepper, version, connections, conns, metrics, sessions, sess,
                 applied, admitted, nreq, napply, poller, wire, lk>>

\* conn.Handler.HandleMessage(body) and s.gw.RecordRequest(conn.Config.ID, ...)
MsgHandle(p, latencyMs) ==
  /\ rq[p].pc = "msg_handle"
  /\ LET resp == HandleMessage(rq[p].frame)
     IN /\ metrics' = RecordRequest(metrics, conns[rq[p].conn].Config.ID, latencyMs,
                                    IsErrorResponse(resp), now)
        /\ rq' = [rq EXCEPT ![p] = [@ EXCEPT !.pc = "msg_enqueue", !.resp = resp,
                                              !.handled = @ + 1]]
  /\ UNCHANGED <<now, pepper, version, connections, conns, sessions, sess,
                 applied, admitted, nreq, napply, poller, wire, lk>>

\* a faulty variant of Enqueue: a full buffer gives up its oldest payload
EnqueueDropOldest(q, resp) ==
  IF Len(q) < MessagesCap THEN Append(q, resp) ELSE Append(Tail(q), resp)

\* select { case session.Messages <- respBytes: default: dropped }
Enqueue(q, resp) == IF Len(q) < MessagesCap THEN Append(q, resp) ELSE q

\* if response != nil: the non-blocking send; then 202 Accepted
MsgEnqueue(p) ==
  /\ rq[p].pc = "msg_enqueue"
  /\ sess' = IF rq[p].resp # NoResponse
             THEN [sess EXCEPT ![rq[p].session].Messages = Enqueue(@, rq[p].resp)]
             ELSE sess
  /\ rq' = [rq EXCEPT ![p] = Finished(@, StatusAccepted)]
  /\ UNCHANGED <<now, pepper, version, connections, conns, metrics, sessions,
                 applied, admitted, nreq, napply, poller, wire, lk>>

(* ------------ Streamable HTTP: Server.handleStreamableHTTP ------------- *)
\* a faulty variant of IsNotification: notifications are told by their method
IsNotificationByMethod(f) ==
  f.json = "object" /\ f.method \in {"initialized", "notifications/cancelled"}

\* json.Unmarshal(body, &rawMsg) succeeds and rawMsg has no "id" key
IsNotification(f) == f.json \in {"object", "mistyped"} /\ ~f.hasID

\* the whole handler after the gate: the notification short cut, or
\* HandleMessage, RecordRequest and the JSON response
McpPost(p, latencyMs) ==
  /\ rq[p].pc = "route"
  /\ rq[p].route = "POST /mcp"
  /\ LET f == rq[p].frame
         resp == HandleMessage(f)
     IN IF ~ReadBody(f)
        THEN /\ rq' = [rq EXCEPT ![p] = Finished([@ EXCEPT !.body = TRUE],
                                                 StatusRequestEntityTooLarge)]
             /\ UNCHANGED metrics
        ELSE IF IsNotification(f)
        THEN /\ rq' = [rq EXCEPT ![p] = Finished([@ EXCEPT !.handled = @ + 1], StatusAccepted)]
             /\ UNCHANGED metrics
        ELSE /\ metrics' = RecordRequest(metrics, conns[rq[p].conn].Config.ID, latencyMs,
                                         IsErrorResponse(resp), now)
             /\ rq' = [rq EXCEPT ![p] =
                         IF resp = NoResponse
                         THEN Finished([@ EXCEPT !.handled = @ + 1], StatusAccepted)
                         ELSE Finished([@ EXCEPT !.handled = @ + 1, !.resp = resp,
                                                 !.body = TRUE], StatusOK)]
  /\ UNCHANGED <<now, pepper, version, connections, conns, sessions, sess,
                 applied, admitted, nreq, napply, poller, wire, lk>>

(* ------------ Streamable HTTP: Server.handleStreamableSSE -------------- *)
\* the keep-alive stream is opened
McpStreamOpen(p) ==
  /\ rq[p].pc = "route"
  /\ rq[p].route = "GET /mcp"
  /\ rq' = [rq EXCEPT ![p] = [@ EXCEPT !.pc = "mcp_stream", !.status = StatusOK]]
  /\ UNCHANGED <<now, pepper, version, connections, conns, metrics, sessions, sess,
                 applied, admitted, nreq, napply, poller, wire, lk>>

\* select: <-r.Context().Done()
McpStreamGone(p) ==
  /\ rq[p].pc = "mcp_stream"
  /\ rq' = [rq EXCEPT ![p] = Finished(@, StatusOK)]
  /\ UNCHANGED <<now, pepper, version, connections, conns, metrics, sessions, sess,
                 applied, admitted, nreq, napply, poller, wire, lk>>

(* ------------------------ sample inputs -------------------------------- *)
Bearer(key) == [scheme |-> "Bearer", cred |-> key]
NoAuthorization == [scheme |-> "", cred |-> <<>>]

Ping(hasID) == Frame("object", hasID, IdInt(1), "2.0", "ping", "", "ok", FALSE)

UnknownSessionID == <<9999, 9999>>

\* two tenants: A (default rate limit, 1 session) and B (1 request a minute,
\* default session ceiling)
CfgBase ==
  GatewayConfig(Pepper1, 1,
    <<ConnectionConfig("A", "a", "math", ComputedHash(Pepper1, KeyOld), <<>>, ExpiryEmpty,
                       TRUE, 1, 0, 1),
      ConnectionConfig("B", "b", "dns", ComputedHash(Pepper1, KeyB), <<>>, ExpiryEmpty,
                       TRUE, 1, 1, 0)>>)

\* CfgBase with A's environment changed
CfgEnv ==
  GatewayConfig(Pepper1, 2,
    <<ConnectionConfig("A", "a", "math", ComputedHash(Pepper1, KeyOld), <<>>, ExpiryEmpty,
                       TRUE, 2, 0, 1),
      ConnectionConfig("B", "b", "dns", ComputedHash(Pepper1, KeyB), <<>>, ExpiryEmpty,
                       TRUE, 1, 1, 0)>>)

\* the instant at which A's previous key stops being accepted in CfgRotate
GraceEnd == TickStep

\* a rotation: a new pepper, A has a new key and keeps the old one until
\* GraceEnd, with other limits; B's previous key has an expiry that does not parse
CfgRotate ==
  GatewayConfig(Pepper2, 3,
    <<ConnectionConfig("A", "a", "math", ComputedHash(Pepper2, KeyNew),
                       ComputedHash(Pepper2, KeyOld), ExpiryAt(GraceEnd), TRUE, 1, 3, 2),
      ConnectionConfig("B", "b", "dns", ComputedHash(Pepper2, KeyB),
                       ComputedHash(Pepper2, KeyOld), ExpiryGarbage, TRUE, 1, 1, 0)>>)

\* A moves to another profile, B is disabled
CfgSwap ==
  GatewayConfig(Pepper1, 4,
    <<ConnectionConfig("A", "a", "dns", ComputedHash(Pepper1, KeyOld), <<>>, ExpiryEmpty,
                       TRUE, 1, 0, 1),
      ConnectionConfig("B", "b", "dns", ComputedHash(Pepper1, KeyB), <<>>, ExpiryEmpty,
                       FALSE, 1, 1, 0)>>)

(* ------------------- the rate limiter under load ----------------------- *)
\* concurrent POST /mcp requests of both tenants with their right keys, while
\* the clock advances
NextRate ==
  \/ ApplyConfig(CfgBase)
  \/ Tick
  \/ \E p \in Procs, h \in {<<"b", KeyB>>, <<"a", KeyOld>>} :
       StartRequest(p, h[1], "POST /mcp", Bearer(h[2]), NoSessionID, Ping(TRUE))
  \/ \E p \in Procs :
       \/ AuthStart(p)
       \/ VerifyPrimary(p)
       \/ RateRead(p)
       \/ RateDecide(p)
       \/ McpPost(p, 1)

SpecRate == Init /\ [][NextRate]_vars

\* the number of admissions of connection c at times in (t - 60s, t]
AdmittedIn(c, t) == Len(SelectSeq(admitted[c], LAMBDA u : u > t - Minute /\ u <= t))

\* C1: for every tenant and every instant t, the number of requests admitted
\* by CheckRateLimit in (t - 60s, t] is at most the tenant's per-minute ceiling
C1_SlidingWindow ==
  \A c \in 1..Len(conns) : \A t \in 0..now :
    AdmittedIn(c, t) <= RateLimitOf(conns[c].Config)

\* C1 witness: tenant B is at its ceiling of 1 within the current window, a
\* request was turned away with 429, and an earlier admission has left the window
C1_Witness ==
  /\ \E c \in 1..Len(conns) :
       /\ conns[c].Config.ID = "B"
       /\ AdmittedIn(c, now) = RateLimitOf(conns[c].Config)
       /\ \E i \in 1..Len(admitted[c]) : admitted[c][i] <= now - Minute
  /\ \E p \in Procs : rq[p].status = StatusTooManyRequests

(* ---------------------- sessions: attach and teardown ------------------ *)
\* GET /sse attaches and DELETE /mcp on tenant A while the clock advances and
\* configurations that keep both tenants are applied
NextSess ==
  \/ \E cfg \in {CfgBase, CfgEnv} : ApplyConfig(cfg)
  \/ Tick
  \/ \E p \in Procs :
       StartRequest(p, "a", "GET /sse", Bearer(KeyOld), NoSessionID, NoFrame)
  \/ \E p \in Procs, id \in {sess[i].ID : i \in 1..Len(sess)} \cup {UnknownSessionID} :
       StartRequest(p, "a", "DELETE /mcp", NoAuthorization, id, NoFrame)
  \/ \E p \in Procs :
       \/ AuthStart(p)
       \/ VerifyPrimary(p)
       \/ RateRead(p)
       \/ RateDecide(p)
       \/ SSECheck(p)
       \/ SSECreate(p)
       \/ SSEIncrement(p)
       \/ SSEEndpoint(p)
       \/ SSEClientGone(p)
       \/ SSEDoneSeen(p)
       \/ TeardownClose(p)
       \/ TeardownDelete(p)
       \/ TeardownDecrement(p)
       \/ DeleteLoad(p)
       \/ DeleteClose(p)
       \/ DeleteDelete(p)

SpecSess == Init /\ [][NextSess]_vars

\* C2: the active-session counter is decremented exactly once in the teardown
\* of each SSE session, whichever way the session ended
C2_DecrementOnce ==
  \A p \in Procs :
    (rq[p].pc \in {"done", "panic"} /\ rq[p].route = "GET /sse" /\ rq[p].status = StatusOK)
      => rq[p].decs = 1

\* no attach, teardown or other request is in progress: every handler has
\* returned or sits in its writer loop
Quiescent == \A p \in Procs : rq[p].pc \in {"idle", "done", "panic", "sse_loop"}

\* the live writer loops whose session is owned by tenant id
LiveLoops(id) == {p \in Procs : rq[p].pc = "sse_loop" /\ sess[rq[p].session].ConnID = id}

\* C3: at every quiescent point the counter of each tenant equals the number
\* of live writer loops owned by that tenant
C3_CounterMatchesLoops ==
  Quiescent =>
    \A d \in Hosts :
      connections[d] # Nil =>
        conns[connections[d]].sessions
          = Cardinality(LiveLoops(conns[connections[d]].Config.ID))

\* C12: DELETE /mcp with any session id always answers 204, whether the id
\* is unknown, the session live, already closed, or the DELETE races with
\* another DELETE or with the client's disconnect
C12_DeleteAlways204 ==
  [][\A p \in Procs :
       (rq[p].pc \in {"del_load", "del_close", "del_delete"}
          /\ rq'[p].pc \notin {"del_load", "del_close", "del_delete"})
         => (rq'[p].pc = "done" /\ rq'[p].status = StatusNoContent)]_vars

\* the goroutines whose writer loop owns session i and has not begun
\* teardown: the session is stored and the deferred function has not started
Running(i) ==
  {p \in Procs : rq[p].session = i /\ rq[p].pc \in {"sse_inc", "sse_endpoint", "sse_loop"}}

\* the goroutines inside the deferred teardown of session i, before its Delete
Leaving(i) ==
  {p \in Procs : rq[p].session = i /\ rq[p].pc \in {"td_close", "td_delete"}}

\* C13: each registry entry maps to a session whose writer loop is still
\* running (or is just removing it), and the session of each running writer
\* loop is retrievable by its id
C13_RegistryMatchesLoops ==
  /\ \A id \in DOMAIN sessions :
       Running(sessions[id]) \cup Leaving(sessions[id]) # {}
  /\ \A i \in 1..Len(sess) :
       Running(i) # {} => (Loaded(sessions, sess[i].ID) /\ sessions[sess[i].ID] = i)

\* C14: two live sessions never carry the same session id, so that storing
\* one never overwrites the registry entry of the other
C14_UniqueSessionIDs ==
  \A i, j \in 1..Len(sess) :
    (i # j /\ Running(i) # {} /\ Running(j) # {}) => sess[i].ID # sess[j].ID

\* the sessions of connection c that are attached: counted in, not yet torn down
ActiveSessions(c) == {p \in Procs : rq[p].pc \in {"sse_endpoint", "sse_loop"} /\ rq[p].conn = c}

\* C4: the number of simultaneously active sessions of a tenant never exceeds
\* its maximum-concurrent-session ceiling
C4_CeilingRespected ==
  \A c \in 1..Len(conns) :
    Cardinality(ActiveSessions(c)) <= MaxConcurrencyOf(conns[c].Config)

(* ------------- configuration swaps under attached sessions ------------- *)
\* one session of tenant A after the other attaches and ends by client
\* disconnect while
\* configurations are applied that keep tenant A (CfgBase, CfgEnv) or replace
\* it (CfgSwap)
NextSwap ==
  \/ \E cfg \in {CfgBase, CfgEnv, CfgSwap} : ApplyConfig(cfg)
  \/ Tick
  \/ StartRequest(1, "a", "GET /sse", Bearer(KeyOld), NoSessionID, NoFrame)
  \/ AuthStart(1)
  \/ VerifyPrimary(1)
  \/ RateRead(1)
  \/ RateDecide(1)
  \/ SSECheck(1)
  \/ SSECreate(1)
  \/ SSEIncrement(1)
  \/ SSEEndpoint(1)
  \/ SSEClientGone(1)
  \/ TeardownClose(1)
  \/ TeardownDelete(1)
  \/ TeardownDecrement(1)

SpecSwap == Init /\ [][NextSwap]_vars

\* C5: an ApplyConfig whose configuration holds an enabled tenant with the
\* domain and profile of a registered tenant leaves that tenant registered with
\* the same rate window and the same session counter
C5_ApplyPreservesLiveState ==
  [][\A cfg \in {CfgBase, CfgEnv, CfgSwap} :
       ApplyConfig(cfg) =>
         \A i \in 1..Len(cfg.Connections) :
           LET cc == cfg.Connections[i]
               existing == connections[cc.Domain]
           IN (cc.Enabled /\ existing # Nil /\ conns[existing].Config.Profile = cc.Profile)
                => /\ connections'[cc.Domain] = existing
                   /\ conns'[existing].requests = conns[existing].requests
                   /\ conns'[existing].sessions = conns[existing].sessions
                   /\ conns'[existing].Config = cc]_vars

\* C5 witness: a configuration was applied over a tenant that had admissions in
\* its window and a session attached, and the tenant still has both
C5_Witness ==
  /\ \E a \in applied : a.carried /\ a.cfg = CfgEnv
  /\ connections["a"] # Nil
  /\ conns[connections["a"]].requests # <<>>
  /\ conns[connections["a"]].sessions > 0
  /\ conns[connections["a"]].env = 2

\* the configuration applied last is cfg
AppliedLast(cfg) == napply > 0 /\ version = cfg.Version /\ pepper = cfg.Pepper

\* C31: applying the same configuration twice in a row leaves, for every
\* tenant in it, the same tenant record in the registry after the second
\* apply as after the first: same identity, same rate window, same session
\* counter, same configuration values
C31_ApplyIdempotent ==
  [][\A cfg \in {CfgBase, CfgEnv, CfgSwap} :
       (AppliedLast(cfg) /\ ApplyConfig(cfg)) =>
         /\ connections' = connections
         /\ \A d \in Hosts :
              connections[d] # Nil =>
                /\ conns'[connections[d]] = conns[connections[d]]
                /\ \E i \in 1..Len(cfg.Connections) :
                     conns'[connections[d]].Config = cfg.Connections[i]
         /\ pepper' = pepper
         /\ version' = version]_vars

\* C31 witness: one configuration was applied twice, the second time over a
\* tenant with an admission in its window and a session attached, and the
\* tenant still has both
C31_Witness ==
  /\ napply = 2
  /\ \E a, b \in applied : a.cfg = b.cfg /\ ~a.carried /\ b.carried
  /\ connections["a"] # Nil
  /\ conns[connections["a"]].requests # <<>>
  /\ conns[connections["a"]].sessions = 1

\* C35: no interleaving of a session's teardown paths closes the session's
\* done signal twice: a DELETE /mcp, a second DELETE, and the deferred
\* teardown of the writer loop, after the client went away or after the
\* loop saw the done signal, find the signal open when they close it
C35_DoneClosedOnce ==
  \A p \in Procs :
    rq[p].pc \in {"td_close", "del_close"} => ~sess[rq[p].session].done

\* the deferred teardown of a writer loop has closed a done signal that a
\* DELETE had closed: the goroutine died in the panic, its session counter
\* was not decremented
ClosedTwice ==
  \E p \in Procs :
    /\ rq[p].pc = "panic"
    /\ rq[p].route = "GET /sse"
    /\ rq[p].decs = 0
    /\ connections["a"] # Nil
    /\ conns[connections["a"]].sessions = 1

(* ------------- verification while configurations change ---------------- *)
\* one request goroutine against the reconciler: POST /mcp with the old and
\* the new key of tenant A and with A's old key on tenant B, while CfgBase and
\* the rotation CfgRotate are applied and the clock advances
NextAuth ==
  \/ \E cfg \in {CfgBase, CfgRotate} : ApplyConfig(cfg)
  \/ Tick
  \/ \E h \in {<<"a", KeyOld>>, <<"a", KeyNew>>, <<"b", KeyOld>>} :
       StartRequest(1, h[1], "POST /mcp", Bearer(h[2]), NoSessionID, Ping(TRUE))
  \/ AuthStart(1)
  \/ VerifyPrimary(1)
  \/ VerifyPrev(1)
  \/ AuthFail(1)
  \/ RateRead(1)
  \/ RateDecide(1)
  \/ McpPost(1, 1)

SpecAuth == Init /\ [][NextAuth]_vars

\* the tenant entry for domain d in configuration cfg, as a set
TenantOf(cfg, d) ==
  {cfg.Connections[i] : i \in {j \in 1..Len(cfg.Connections) : cfg.Connections[j].Domain = d}}

\* C6: a request observes entirely one applied configuration of its tenant:
\* the key hash it was verified against and the rate limit it is subjected to
\* come from the same configuration
C6_OneConfigurationObserved ==
  \A p \in Procs :
    rq[p].pc = "rate_locked" =>
      \E a \in applied : \E cc \in TenantOf(a.cfg, rq[p].host) :
        /\ cc.APIKeyHash = rq[p].seenKey
        /\ cc.RateLimit = rq[p].seenRate

\* the requests whose credential VerifyAPIKey has compared with the primary hash
PrimaryCompared(p) ==
  /\ ~NoBearer(rq[p].auth)
  /\ rq[p].pc \in {"verify_prev", "rate", "authfail"}

\* C7: the pepper VerifyAPIKey hashes with and the key hashes it compares
\* against belong to the same applied configuration
C7_PepperAndHashesAgree ==
  \A p \in Procs :
    PrimaryCompared(p) =>
      \E a \in applied : \E cc \in TenantOf(a.cfg, rq[p].host) :
        /\ a.cfg.Pepper = rq[p].pepper
        /\ cc.APIKeyHash = rq[p].seenKey
        /\ rq[p].seenNow >= 0 => cc.PrevKeyHash = rq[p].seenPrev

\* the requests on which VerifyAPIKey has returned
Verified(p) == ~NoBearer(rq[p].auth) /\ rq[p].pc \in {"rate", "authfail"}

\* C8: a credential is accepted exactly when its computed hash equals the
\* tenant's primary hash, or equals the previous hash while the rotation expiry
\* parses and the current time is strictly before it
C8_AcceptanceRule ==
  \A p \in Procs :
    Verified(p) =>
      LET r == rq[p]
          computed == ComputedHash(r.pepper, r.auth.cred)
      IN r.ok <=> \/ computed = r.seenKey
                  \/ /\ r.seenNow >= 0
                     /\ computed = r.seenPrev
                     /\ r.seenExpiry.kind = "rfc3339"
                     /\ r.seenNow < r.seenExpiry.t

\* C8 witness: the previous key is presented at the very instant of its expiry
\* and is turned away, its hash matching the previous hash
C8_Witness ==
  \E p \in Procs :
    /\ Verified(p)
    /\ ~rq[p].ok
    /\ rq[p].seenNow = GraceEnd
    /\ rq[p].seenExpiry = ExpiryAt(GraceEnd)
    /\ ComputedHash(rq[p].pepper, rq[p].auth.cred) = rq[p].seenPrev

(* ------------------------- the gate, all routes ------------------------ *)
\* one request after the other on the four authenticated routes of tenant B
\* (one request a minute): without a bearer, with a wrong key and with the
\* right key; a session that is attached stays attached
NextGate ==
  \/ ApplyConfig(CfgBase)
  \/ Tick
  \/ \E route \in AuthRoutes, auth \in {NoAuthorization, Bearer(KeyWrong), Bearer(KeyB)} :
       StartRequest(1, "b", route, auth, NoSessionID, Ping(TRUE))
  \/ AuthStart(1)
  \/ VerifyPrimary(1)
  \/ VerifyPrev(1)
  \/ AuthFail(1)
  \/ RateRead(1)
  \/ RateDecide(1)
  \/ McpPost(1, 1)
  \/ McpStreamOpen(1)
  \/ McpStreamGone(1)
  \/ MsgLookup(1)
  \/ SSECheck(1)
  \/ SSECreate(1)
  \/ SSEIncrement(1)
  \/ SSEEndpoint(1)

SpecGate == Init /\ [][NextGate]_vars

\* the positions inside authenticateRequest
GatePcs == {"auth", "verify", "verify_prev", "authfail", "rate", "rate_locked"}

\* the auth-failure delta of tenant id
AuthFailuresOf(m, id) == IF id \in DOMAIN m THEN m[id].AuthFailures ELSE 0

\* C9: every authenticated route runs the same gate in the same order: a
\* missing or wrong bearer ends in 401, counts one auth failure for the tenant
\* and leaves the rate window alone; a valid bearer over the ceiling ends in 429
\* and counts no auth failure; a request the gate stops never reaches the
\* handler or a session; only an accepted and admitted request goes on to the
\* transport
C9_GateOrder ==
  [][\A p \in Procs :
       LET r == rq[p]
           r2 == rq'[p]
           id == conns[r.conn].Config.ID
       IN (r.pc \in GatePcs /\ r2 # r) =>
            /\ (r.pc = "auth" /\ NoBearer(r.auth)) => r2.pc = "authfail"
            /\ r.pc = "authfail" => (r2.pc = "done" /\ r2.status = StatusUnauthorized)
            /\ r2.pc = "done" =>
                 /\ r2.status \in {StatusUnauthorized, StatusTooManyRequests}
                 /\ r2.handled = 0
                 /\ ~r2.body
                 /\ sess' = sess
                 /\ sessions' = sessions
            /\ r2.status = StatusUnauthorized =>
                 /\ NoBearer(r.auth) \/ ~r.ok
                 /\ \A c \in 1..Len(conns) : conns'[c].requests = conns[c].requests
                 /\ AuthFailuresOf(metrics', id) = AuthFailuresOf(metrics, id) + 1
                 /\ \A o \in DOMAIN metrics \ {id} : metrics'[o] = metrics[o]
            /\ r2.status = StatusTooManyRequests =>
                 /\ r.ok
                 /\ metrics' = metrics
                 /\ admitted' = admitted
            /\ r2.pc \notin (GatePcs \cup {"done"}) =>
                 /\ r.pc = "rate_locked"
                 /\ r.ok
                 /\ admitted'[r.conn] = Append(admitted[r.conn], now)]_vars

\* C9 witness: one request went through the gate to its handler, one was
\* answered 401 and counted, and the last one was answered 429
C9_Witness ==
  /\ "B" \in DOMAIN metrics
  /\ metrics["B"].AuthFailures = 1
  /\ metrics["B"].RequestCount = 1
  /\ rq[1].pc = "done"
  /\ rq[1].status = StatusTooManyRequests
  /\ nreq = 3

(* ------------------- frames without an id, both transports ------------- *)
Notification(method) == Frame("object", FALSE, IdNull, "2.0", method, "", "ok", FALSE)

SampleFrames ==
  {Ping(TRUE), Ping(FALSE), Notification("initialized"),
   Notification("notifications/initialized")}

\* an SSE session of tenant A is attached and frames are POSTed to /message
\* and to /mcp, with and without an id
NextMsg ==
  \/ ApplyConfig(CfgBase)
  \/ \E p \in Procs :
       StartRequest(p, "a", "GET /sse", Bearer(KeyOld), NoSessionID, NoFrame)
  \/ \E p \in Procs, id \in {sess[i].ID : i \in 1..Len(sess)}, f \in SampleFrames :
       StartRequest(p, "a", "POST /message", Bearer(KeyOld), id, f)
  \/ \E p \in Procs, f \in SampleFrames :
       StartRequest(p, "a", "POST /mcp", Bearer(KeyOld), NoSessionID, f)
  \/ \E p \in Procs :
       \/ AuthStart(p)
       \/ VerifyPrimary(p)
       \/ RateRead(p)
       \/ RateDecide(p)
       \/ SSECheck(p)
       \/ SSECreate(p)
       \/ SSEIncrement(p)
       \/ SSEEndpoint(p)
       \/ SSEWriteMessage(p)
       \/ SSEKeepAlive(p)
       \/ MsgLookup(p)
       \/ MsgHandle(p, 1)
       \/ MsgEnqueue(p)
       \/ McpPost(p, 1)

SpecMsg == Init /\ [][NextMsg]_vars

\* C10: a frame without an id is a notification on both transports: the
\* request that carries it gets no response body and nothing is enqueued on
\* any SSE session for it
C10_NotificationsUnanswered ==
  [][\A p \in Procs :
       (IsNotification(rq[p].frame) /\ rq'[p] # rq[p]) =>
         /\ ~rq'[p].body
         /\ \A i \in 1..Len(sess) : sess'[i].Messages = sess[i].Messages]_vars

(* ---------------------- frames POSTed to /mcp --------------------------- *)
\* a JSON object that does not fit JSONRPCRequest (its method is a number)
Mistyped(hasID) == Frame("mistyped", hasID, IdInt(1), "2.0", "", "", "ok", FALSE)
\* a body that is no JSON
Invalid == Frame("invalid", FALSE, IdNull, "", "", "", "ok", FALSE)

\* frames with and without an id, within the body cap, at it and over it
McpFrames ==
  {Ping(TRUE), Ping(FALSE), Notification("initialized"),
   Notification("notifications/initialized"), Mistyped(FALSE), Invalid,
   WithBody(Ping(FALSE), BodyLimit, BufSize, FALSE),
   WithBody(Ping(FALSE), BodyLimit + 1, BufSize, FALSE),
   WithBody(Ping(FALSE), BodyLimit + 1, BufSize, TRUE)}

\* one request after the other on POST /mcp of tenant A
NextMcp ==
  \/ ApplyConfig(CfgBase)
  \/ \E f \in McpFrames :
       StartRequest(1, "a", "POST /mcp", Bearer(KeyOld), NoSessionID, f)
  \/ AuthStart(1)
  \/ VerifyPrimary(1)
  \/ RateRead(1)
  \/ RateDecide(1)
  \/ McpPost(1, 1)

SpecMcp == Init /\ [][NextMcp]_vars

\* the frame of request p is a JSON object without an id key, and the gate
\* has let the request through to handleStreamableHTTP
NoIdFrameAtMcp(p) ==
  /\ rq[p].pc = "route"
  /\ rq[p].route = "POST /mcp"
  /\ rq[p].frame.json \in {"object", "mistyped"}
  /\ ~rq[p].frame.hasID

PingN(n) == Frame("object", TRUE, IdInt(n), "2.0", "ping", "", "ok", FALSE)

SessionIDs == {sess[i].ID : i \in 1..Len(sess)}

\* goroutine 1 serves the GET /sse of a client of tenant A, goroutine 2 the
\* frames the client POSTs to /message as soon as the session id exists
NextStream ==
  \/ ApplyConfig(CfgBase)
  \/ StartRequest(1, "a", "GET /sse", Bearer(KeyOld), NoSessionID, NoFrame)
  \/ \E id \in SessionIDs :
       StartRequest(2, "a", "POST /message", Bearer(KeyOld), id, PingN(nreq))
  \/ \E p \in Procs :
       \/ AuthStart(p)
       \/ VerifyPrimary(p)
       \/ RateRead(p)
       \/ RateDecide(p)
       \/ SSECheck(p)
       \/ SSECreate(p)
       \/ SSEIncrement(p)
       \/ SSEEndpoint(p)
       \/ SSEWriteMessage(p)
       \/ SSEKeepAlive(p)
       \/ MsgLookup(p)
       \/ MsgHandle(p, 1)
       \/ MsgEnqueue(p)

SpecStream == Init /\ [][NextStream]_vars

\* C15: the first event written to the stream of a session is the endpoint
\* event whose data is /message?sessionId=<the session's id>; before it
\* nothing is written, whatever was POSTed to /message for that id meanwhile,
\* and no second endpoint event follows
C15_EndpointFirst ==
  \A i \in 1..Len(sess) :
    /\ (\E p \in Procs : rq[p].session = i /\ rq[p].pc \in {"sse_inc", "sse_endpoint"})
         => sess[i].out = <<>>
    /\ sess[i].out # <<>> =>
         /\ sess[i].out[1].event = "endpoint"
         /\ sess[i].out[1].data = MessageURL(sess[i].ID)
         /\ \A k \in 2..Len(sess[i].out) : sess[i].out[k].event # "endpoint"

\* C15 witness: a response was enqueued and written after the endpoint event
\* and another one is pending
C15_Witness ==
  \E i \in 1..Len(sess) :
    /\ Len(sess[i].out) = 2
    /\ sess[i].out[1] = EndpointEvent(sess[i].ID)
    /\ sess[i].out[2].event = "message"
    /\ sess[i].Messages # <<>>

\* a POST to /message was processed before the endpoint event was flushed
PostedBeforeEndpoint ==
  \E i \in 1..Len(sess) :
    /\ sess[i].Messages # <<>>
    /\ \E p \in Procs : rq[p].session = i /\ rq[p].pc = "sse_endpoint"

\* the payloads of the message events written to the stream of session i
RECURSIVE DataOf(_)
DataOf(evs) ==
  IF evs = <<>> THEN <<>>
  ELSE IF Head(evs).event = "message" THEN <<Head(evs).data>> \o DataOf(Tail(evs))
  ELSE DataOf(Tail(evs))

Delivered(i) == DataOf(sess[i].out)

\* what was enqueued on session i: delivered, then pending
History(i) == Delivered(i) \o sess[i].Messages

IsPrefix(a, b) == Len(a) <= Len(b) /\ SubSeq(b, 1, Len(a)) = a

\* C16: the message events of a session are the successfully enqueued
\* responses in the order of their enqueue: the sequence delivered-then-pending
\* changes only by an enqueue appending its response at the end, and the
\* delivered part only grows at its end
C16_FifoDelivery ==
  [][\A i \in 1..Len(sess) :
       /\ IsPrefix(Delivered(i), Delivered(i)')
       /\ \/ History(i)' = History(i)
          \/ \E p \in Procs :
               /\ rq[p].pc = "msg_enqueue"
               /\ rq[p].session = i
               /\ rq'[p].pc = "done"
               /\ History(i)' = Append(History(i), rq[p].resp)]_vars

\* C16 witness: two responses were written in the order of their requests,
\* after a keep-alive comment
C16_Witness ==
  \E i \in 1..Len(sess) :
    /\ Len(Delivered(i)) = 2
    /\ Delivered(i)[1].ID = IdInt(1)
    /\ Delivered(i)[2].ID = IdInt(2)
    /\ \E k \in 1..Len(sess[i].out) : sess[i].out[k].event = "ping"

(* ------------------- a burst on one SSE session ------------------------- *)
\* the attach and then more POSTs than the buffer of the session holds
Burst == MessagesCap + 2

\* tenant A with a rate limit that lets the whole burst through
CfgWide ==
  GatewayConfig(Pepper1, 1,
    <<ConnectionConfig("A", "a", "math", ComputedHash(Pepper1, KeyOld), <<>>, ExpiryEmpty,
                       TRUE, 1, Burst, 1)>>)

\* goroutine 1 serves the GET /sse, goroutine 2 one numbered POST /message
\* after the other; the writer loop takes payloads whenever it is scheduled
NextBuf ==
  \/ ApplyConfig(CfgWide)
  \/ StartRequestWithin(Burst, 1, "a", "GET /sse", Bearer(KeyOld), NoSessionID, NoFrame)
  \/ \E id \in SessionIDs :
       StartRequestWithin(Burst, 2, "a", "POST /message", Bearer(KeyOld), id, PingN(nreq))
  \/ \E p \in Procs :
       \/ AuthStart(p)
       \/ VerifyPrimary(p)
       \/ RateRead(p)
       \/ RateDecide(p)
       \/ SSECheck(p)
       \/ SSECreate(p)
       \/ SSEIncrement(p)
       \/ SSEEndpoint(p)
       \/ SSEWriteMessage(p)
       \/ MsgLookup(p)
       \/ MsgHandle(p, 1)
       \/ MsgEnqueue(p)

SpecBuf == Init /\ [][NextBuf]_vars

\* C17: the enqueue never blocks and drops the newest payload at a full
\* buffer: a handler at the enqueue can always take its step; the step ends
\* the request with 202; with fewer than 64 payloads pending the response is
\* appended, with 64 pending the buffer is left exactly as it was
C17_DropNewestOnFull ==
  /\ [](\A p \in Procs : rq[p].pc = "msg_enqueue" => ENABLED MsgEnqueue(p))
  /\ [][\A p \in Procs :
          (rq[p].pc = "msg_enqueue" /\ rq'[p].pc # "msg_enqueue") =>
            LET q == sess[rq[p].session].Messages
                qq == sess'[rq[p].session].Messages
            IN /\ rq'[p].pc = "done"
               /\ rq'[p].status = StatusAccepted
               /\ (rq[p].resp # NoResponse /\ Len(q) < MessagesCap)
                    => qq = Append(q, rq[p].resp)
               /\ (rq[p].resp # NoResponse /\ Len(q) >= MessagesCap)
                    => (Len(q) = MessagesCap /\ qq = q)]_vars

\* C17 witness: the writer took nothing, 65 numbered responses were handed to
\* the enqueue, the first 64 are pending and the 65th request ended with 202
C17_Witness ==
  \E i \in 1..Len(sess) :
    /\ Delivered(i) = <<>>
    /\ Len(sess[i].Messages) = MessagesCap
    /\ sess[i].Messages[1].ID = IdInt(1)
    /\ sess[i].Messages[MessagesCap].ID = IdInt(MessagesCap)
    /\ nreq = MessagesCap + 2
    /\ rq[2].pc = "done"
    /\ rq[2].status = StatusAccepted
    /\ rq[2].handled = 1

(* ------------------------- Poller.syncConfig ---------------------------- *)
\* strconv.FormatInt(v, 10)
FormatInt(v) == [base10 |-> v]

\* GET <apiURL>/internal/gateway/sync with its two headers
SyncRequest(tok, ver) ==
  [kind |-> "sync", auth |-> Bearer(tok), configVersion |-> FormatInt(ver)]

\* what httpClient.Do returns: an error, or a response with its status, its
\* X-Gateway-Token header (NoToken when absent) and its body
TransportError == [kind |-> "error"]
Reply(status, newToken, body) ==
  [kind |-> "response", status |-> status, newToken |-> newToken, body |-> body]

\* bodies: io.ReadAll fails; json.Unmarshal fails; {success, data}
Unreadable == [read |-> FALSE, json |-> FALSE, success |-> FALSE]
Undecodable == [read |-> TRUE, json |-> FALSE, success |-> FALSE]
ApiResp(success, data) == [read |-> TRUE, json |-> TRUE, success |-> success, data |-> data]

\* a faulty variant of Refreshed: the token is taken from a 200 only
RefreshedOnOK(p, resp) ==
  IF resp.status = StatusOK /\ resp.newToken # NoToken
  THEN [p EXCEPT !.token = resp.newToken] ELSE p

\* if newToken := resp.Header.Get("X-Gateway-Token"); newToken != ""
Refreshed(p, resp) ==
  IF resp.newToken # NoToken THEN [p EXCEPT !.token = resp.newToken] ELSE p

\* a faulty variant of Applies: the success flag is not looked at
AppliesUnchecked(resp) ==
  resp.status = StatusOK /\ resp.body.read /\ resp.body.json

\* the switch on resp.StatusCode lets only 200 through to the body, which
\* must be read, decoded and carry success=true
Applies(resp) ==
  resp.status = StatusOK /\ resp.body.read /\ resp.body.json /\ resp.body.success

\* the token announced last: the history variable follows the responses
Announced(resp) ==
  IF resp.kind = "response" /\ resp.newToken # NoToken THEN resp.newToken ELSE wire.tok

\* the whole of syncConfig for one response of the control plane
SyncConfig(resp) ==
  /\ wire.ticks < MaxTicks
  /\ wire' = [req |-> SyncRequest(poller.token, version), resp |-> resp,
              tok |-> Announced(resp), ticks |-> wire.ticks + 1]
  /\ IF resp.kind = "error"
     THEN /\ poller' = [poller EXCEPT !.failures = @ + 1]
          /\ UNCHANGED <<now, pepper, version, connections, conns, metrics, sessions,
                         sess, rq, applied, admitted, nreq, napply, lk>>
     ELSE IF resp.status = StatusNotModified
     THEN /\ poller' = [Refreshed(poller, resp) EXCEPT !.failures = 0]
          /\ UNCHANGED <<now, pepper, version, connections, conns, metrics, sessions,
                         sess, rq, applied, admitted, nreq, napply, lk>>
     ELSE IF resp.status = StatusOK
     THEN /\ poller' = [Refreshed(poller, resp) EXCEPT !.failures = 0]
          /\ IF Applies(resp)
             THEN ApplyConfigCall(resp.body.data)
             ELSE UNCHANGED <<now, pepper, version, connections, conns, metrics,
                              sessions, sess, rq, applied, admitted, nreq, napply, lk>>
     ELSE /\ poller' = [Refreshed(poller, resp) EXCEPT !.failures = @ + 1]
          /\ UNCHANGED <<now, pepper, version, connections, conns, metrics, sessions,
                         sess, rq, applied, admitted, nreq, napply, lk>>

(* ------------- Gateway.CollectAndResetMetrics, Poller.reportMetrics ----- *)
\* sorted[i], sorted[j] = sorted[j], sorted[i]
Swap(l, i, j) == [l EXCEPT ![i] = l[j], ![j] = l[i]]

RECURSIVE InnerLoop(_, _, _)
\* for j := i + 1; j < len(sorted); j++ { if sorted[i] > sorted[j] { swap } }
InnerLoop(l, i, j) ==
  IF j > Len(l) THEN l
  ELSE InnerLoop(IF l[i] > l[j] THEN Swap(l, i, j) ELSE l, i, j + 1)

RECURSIVE OuterLoop(_, _)
\* for i := range sorted
OuterLoop(l, i) == IF i > Len(l) THEN l ELSE OuterLoop(InnerLoop(l, i, i + 1), i + 1)

\* the exchange sort of the copy of m.Latencies
Sorted(l) == OuterLoop(l, 1)

\* a faulty variant of P95: the largest sample is reported
P95Max(l) == IF l = <<>> THEN 0 ELSE Sorted(l)[Len(l)]

\* idx := int(float64(len(sorted)) * 0.95), capped at the last index (0-based);
\* the product of a whole number of at most LatencyCap and 0.95 floors as the
\* exact quotient does
P95(l) ==
  IF l = <<>> THEN 0
  ELSE LET idx == (Len(l) * 95) \div 100
       IN Sorted(l)[(IF idx >= Len(l) THEN Len(l) - 1 ELSE idx) + 1]

\* the entries that are reported: some delta is not zero
Reportable(m) ==
  {id \in DOMAIN m :
     ~(m[id].RequestCount = 0 /\ m[id].ErrorCount = 0 /\ m[id].AuthFailures = 0)}

\* conn.sessions of the registered connection with that id, 0 when there is none
ActiveSessionsOf(id) ==
  LET cs == {connections[d] : d \in {h \in Hosts : connections[h] # Nil}}
      mine == {c \in cs : conns[c].Config.ID = id}
  IN IF mine = {} THEN 0 ELSE conns[CHOOSE c \in mine : TRUE].sessions

\* m.LastRequestAt.Format(time.RFC3339), left out for the zero time
FormatRFC3339(t) == IF t < 0 THEN [omitted |-> TRUE] ELSE [rfc3339 |-> t]

MetricsReport(m, id) ==
  [ConnectionID |-> id, RequestCount |-> m[id].RequestCount,
   ErrorCount |-> m[id].ErrorCount, AuthFailures |-> m[id].AuthFailures,
   P95LatencyMs |-> P95(m[id].Latencies), ActiveSessions |-> ActiveSessionsOf(id),
   LastRequestAt |-> FormatRFC3339(m[id].LastRequestAt)]

\* the reports (the map is ranged over in no fixed order: a set)
Reports(m) == {MetricsReport(m, id) : id \in Reportable(m)}

\* a faulty variant of ResetMetrics: the time of the last request is reset too
ResetMetricsAll(m) ==
  [id \in DOMAIN m |-> IF id \in Reportable(m) THEN ZeroMetrics ELSE m[id]]

\* the deltas of the reported entries are reset
ResetMetrics(m) ==
  [id \in DOMAIN m |->
     IF id \in Reportable(m)
     THEN [m[id] EXCEPT !.RequestCount = 0, !.ErrorCount = 0, !.AuthFailures = 0,
                        !.Latencies = <<>>]
     ELSE m[id]]

\* POST <apiURL>/internal/gateway/metrics
MetricsRequest(tok, reports) ==
  [kind |-> "metrics", auth |-> Bearer(tok), metrics |-> reports]

\* the whole of reportMetrics; nothing is sent when there is nothing to report,
\* and the outcome of the push changes nothing
ReportMetrics ==
  /\ wire.ticks < MaxTicks
  /\ metrics' = ResetMetrics(metrics)
  /\ wire' = [wire EXCEPT !.req = IF Reports(metrics) = {} THEN NoRequest
                                   ELSE MetricsRequest(poller.token, Reports(metrics)),
                          !.resp = NoReply,
                          !.ticks = @ + 1]
  /\ UNCHANGED <<now, pepper, version, connections, conns, sessions, sess, rq,
                 applied, admitted, nreq, napply, poller, lk>>

(* ------------------- the reconciler and its control plane --------------- *)
\* a 2xx status other than 200
StatusCreated == StatusOK + 1

\* what the control plane answers: statuses with a body that matters
SyncBodies ==
  {Unreadable, Undecodable, ApiResp(FALSE, CfgRotate), ApiResp(TRUE, CfgBase),
   ApiResp(TRUE, CfgRotate)}

SyncResponses ==
  {TransportError}
    \cup {Reply(st, tok, b) : st \in {StatusOK, StatusCreated},
                              tok \in {NoToken, Token1, Token2}, b \in SyncBodies}
    \cup {Reply(st, tok, Undecodable) :
            st \in {StatusNotModified, StatusUnauthorized, StatusForbidden,
                    StatusInternalServerError},
            tok \in {NoToken, Token1, Token2}}

\* the Poller's ticks, and requests without a bearer that leave an
\* auth-failure delta to report
NextPoll ==
  \/ \E resp \in SyncResponses : SyncConfig(resp)
  \/ ReportMetrics
  \/ StartRequest(1, "a", "POST /mcp", NoAuthorization, NoSessionID, Ping(TRUE))
  \/ AuthStart(1)
  \/ AuthFail(1)

SpecPoll == Init /\ [][NextPoll]_vars

\* the tick that has just ended was a sync tick that must not apply anything
FailedTick(resp) ==
  \/ resp.kind = "error"
  \/ /\ resp.kind = "response"
     /\ \/ resp.status = StatusNotModified
        \/ resp.status \notin 200..299
        \/ ~resp.body.read
        \/ ~resp.body.json
        \/ ~resp.body.success

\* C18: a sync tick that ends in a transport error, a 304, a 401/403, any
\* other non-success status, an undecodable body or success=false leaves the
\* tenant registry, the Connection objects, the pepper and the version as they
\* were, and every sync request carries the version current when it is sent
C18_FailuresKeepConfig ==
  [][(wire'.ticks # wire.ticks /\ wire'.req.kind = "sync") =>
       /\ wire'.req.configVersion = FormatInt(version)
       /\ FailedTick(wire'.resp) =>
            /\ UNCHANGED <<connections, conns, pepper, version, metrics>>
            /\ napply' = napply]_vars

\* C18 witness: a configuration is in force, the last tick failed on
\* success=false and the tick before it did not change the version it sent
C18_Witness ==
  /\ version = 1
  /\ connections["a"] # Nil
  /\ wire.req.kind = "sync"
  /\ wire.req.configVersion = FormatInt(1)
  /\ wire.resp = Reply(StatusOK, NoToken, ApiResp(FALSE, CfgRotate))
  /\ poller.failures = 0

\* C32: the failure counter counts consecutive failed ticks: a sync tick
\* adds one on a transport failure, on 401/403 and on any other unexpected
\* status, sets it to zero on a 304 and on a configuration that is applied,
\* and does not reset it when it applies no configuration because the body
\* could not be decoded or carried success=false
C32_ConsecutiveFailures ==
  [][(wire'.ticks # wire.ticks /\ wire'.req.kind = "sync") =>
       LET resp == wire'.resp
       IN IF resp.kind = "error" THEN poller'.failures = poller.failures + 1
          ELSE IF resp.status = StatusNotModified THEN poller'.failures = 0
          ELSE IF resp.status = StatusOK
          THEN IF napply' # napply THEN poller'.failures = 0
               ELSE poller'.failures >= poller.failures
          ELSE poller'.failures = poller.failures + 1]_vars

\* a tick that applied nothing has set the counter of failures to zero: the
\* response was a 200 with success=false, and failures were counted before
ResetWithoutApply ==
  /\ wire.ticks = 2
  /\ wire.resp = Reply(StatusOK, NoToken, ApiResp(FALSE, CfgRotate))
  /\ napply = 0
  /\ poller.failures = 0

\* what syncConfig does instead: every 200 sets the counter to zero, whatever
\* its body
EveryOKResets ==
  [][(wire'.ticks # wire.ticks /\ wire'.req.kind = "sync") =>
       LET resp == wire'.resp
       IN IF resp.kind = "error" THEN poller'.failures = poller.failures + 1
          ELSE IF resp.status \in {StatusNotModified, StatusOK} THEN poller'.failures = 0
          ELSE poller'.failures = poller.failures + 1]_vars

\* C19: a sync tick decodes the body of every 2xx response and applies the
\* configuration when success=true; on 304, 401/403 and every other status
\* it applies nothing
C19_DispatchOnStatus ==
  [][(wire'.ticks # wire.ticks /\ wire'.req.kind = "sync" /\ wire'.resp.kind = "response") =>
       LET resp == wire'.resp
       IN IF resp.status \in 200..299
          THEN (resp.body.read /\ resp.body.json /\ resp.body.success) =>
                 /\ version' = resp.body.data.Version
                 /\ pepper' = resp.body.data.Pepper
                 /\ napply' = napply + 1
          ELSE /\ UNCHANGED <<connections, conns, pepper, version>>
               /\ napply' = napply]_vars

\* C20: a sync response that carries a non-empty X-Gateway-Token replaces
\* the stored token whatever its status, a response without it and a
\* transport error leave the token alone, and every sync request and metrics
\* push carries the token announced last before it was sent
C20_TokenRotation ==
  [][wire'.ticks # wire.ticks =>
       /\ wire'.req.kind # "none" => wire'.req.auth = Bearer(wire.tok)
       /\ poller'.token = wire'.tok
       /\ (wire'.req.kind = "sync" /\ wire'.resp.kind = "response"
             /\ wire'.resp.newToken # NoToken) => poller'.token = wire'.resp.newToken
       /\ (wire'.req.kind = "sync"
             /\ (wire'.resp.kind = "error" \/ wire'.resp.newToken = NoToken))
            => poller'.token = poller.token]_vars

\* C20 witness: a 401 whose request still carried the first rotated token
\* announced a second one, which is now the stored token
C20_Witness ==
  /\ wire.req.kind = "sync"
  /\ wire.req.auth = Bearer(Token1)
  /\ wire.resp.kind = "response"
  /\ wire.resp.status = StatusUnauthorized
  /\ wire.resp.newToken = Token2
  /\ poller.token = Token2

\* a metrics push carries a rotated token
PushWithRotatedToken ==
  /\ wire.req.kind = "metrics"
  /\ wire.req.auth = Bearer(Token2)
  /\ poller.failures > 0

(* ------------------- the registry across swaps -------------------------- *)
\* A is absent; B comes twice under its domain, the second time with another
\* id and key; C is enabled with a profile selector the registry does not know
CfgOdd ==
  GatewayConfig(Pepper1, 5,
    <<ConnectionConfig("B", "b", "dns", ComputedHash(Pepper1, KeyB), <<>>, ExpiryEmpty,
                       TRUE, 1, 1, 0),
      ConnectionConfig("B2", "b", "dns", ComputedHash(Pepper1, KeyNew), <<>>, ExpiryEmpty,
                       TRUE, 1, 1, 0),
      ConnectionConfig("C", "x", "nope", ComputedHash(Pepper1, KeyOld), <<>>, ExpiryEmpty,
                       TRUE, 1, 0, 0)>>)

SwapConfigs == {CfgBase, CfgSwap, CfgOdd}

\* configurations are swapped under a client of tenant A that attaches,
\* stays and goes
NextReg ==
  \/ \E cfg \in SwapConfigs : ApplyConfig(cfg)
  \/ StartRequest(1, "a", "GET /sse", Bearer(KeyOld), NoSessionID, NoFrame)
  \/ AuthStart(1)
  \/ VerifyPrimary(1)
  \/ RateRead(1)
  \/ RateDecide(1)
  \/ SSECheck(1)
  \/ SSECreate(1)
  \/ SSEIncrement(1)
  \/ SSEEndpoint(1)
  \/ SSEClientGone(1)
  \/ TeardownClose(1)
  \/ TeardownDelete(1)
  \/ TeardownDecrement(1)

SpecReg == Init /\ [][NextReg]_vars

\* the domains of the enabled connections of cfg
EnabledDomains(cfg) ==
  {cfg.Connections[i].Domain : i \in {j \in 1..Len(cfg.Connections) : cfg.Connections[j].Enabled}}

\* the domains of the enabled connections of cfg whose profile selector is known
ServedDomains(cfg) ==
  {cfg.Connections[i].Domain :
     i \in {j \in 1..Len(cfg.Connections) :
              cfg.Connections[j].Enabled /\ cfg.Connections[j].Profile \in KnownProfiles}}

\* the swap leaves sessions and handlers alone and no two domains share a tenant
SwapKeepsSessions ==
  /\ UNCHANGED <<sessions, sess, rq>>
  /\ \A d \in Hosts :
       connections'[d] # Nil => conns'[connections'[d]].Config.Domain = d
  /\ \A d1, d2 \in Hosts :
       (d1 # d2 /\ connections'[d1] # Nil) => connections'[d1] # connections'[d2]

\* C21 as stated: after ApplyConfig(cfg) the lookup returns a tenant exactly
\* for the domains of cfg's enabled connections; running sessions are not
\* touched by the swap and no two tenants share a domain
C21_LookupExactlyEnabled ==
  [][\A cfg \in SwapConfigs :
       ApplyConfig(cfg) =>
         /\ \A d \in Hosts : connections'[d] # Nil <=> d \in EnabledDomains(cfg)
         /\ SwapKeepsSessions]_vars

\* C21, amended: after ApplyConfig(cfg) the lookup returns a tenant exactly
\* for the domains of cfg's connections that are enabled and whose profile
\* selector the profile registry knows; running sessions are not touched by
\* the swap and no two tenants share a domain
C21_LookupExactlyServed ==
  [][\A cfg \in SwapConfigs :
       ApplyConfig(cfg) =>
         /\ \A d \in Hosts : connections'[d] # Nil <=> d \in ServedDomains(cfg)
         /\ SwapKeepsSessions]_vars

\* C21 witness: tenant A was swapped out under its running session: the
\* lookup no longer returns it, nor the tenant with the unknown profile, and
\* the writer loop of the session is still running on its old Connection
C21_Witness ==
  /\ version = CfgOdd.Version
  /\ connections["a"] = Nil
  /\ connections["x"] = Nil
  /\ connections["b"] # Nil
  /\ conns[connections["b"]].Config.ID = "B2"
  /\ rq[1].pc = "sse_loop"
  /\ conns[rq[1].conn].sessions = 1
  /\ Loaded(sessions, sess[rq[1].session].ID)

(* ------------------- requests and metrics ticks ------------------------- *)
\* a request for a method the handler does not know
UnknownMethod == Frame("object", TRUE, IdInt(1), "2.0", "resources/list", "", "ok", FALSE)

\* tenant A serves requests that succeed, fail and lack a bearer, tenant B
\* serves none, and the Poller collects the metrics in between
NextMetrics ==
  \/ ApplyConfig(CfgBase)
  \/ Tick
  \/ \E f \in {Ping(TRUE), UnknownMethod}, auth \in {Bearer(KeyOld), NoAuthorization} :
       StartRequest(1, "a", "POST /mcp", auth, NoSessionID, f)
  \/ AuthStart(1)
  \/ VerifyPrimary(1)
  \/ AuthFail(1)
  \/ RateRead(1)
  \/ RateDecide(1)
  \/ \E latencyMs \in {1, 2} : McpPost(1, latencyMs)
  \/ ReportMetrics

SpecMetrics == Init /\ [][NextMetrics]_vars

\* some delta of the entry is not zero
HasDelta(e) == e.RequestCount # 0 \/ e.ErrorCount # 0 \/ e.AuthFailures # 0

\* the reports of the metrics tick that has just ended
LastReports == IF wire'.req.kind = "metrics" THEN wire'.req.metrics ELSE {}

\* C22: a metrics tick emits one report for each tenant with a non-zero
\* delta, carrying its deltas, and none for the others; afterwards the
\* request, error and auth-failure deltas of each reported tenant are zero
\* and its latency ring is empty, the time of its last request is what it
\* was, and the entries of the other tenants are untouched
C22_SnapshotAndReset ==
  [][(wire'.ticks # wire.ticks /\ wire'.req.kind # "sync") =>
       /\ DOMAIN metrics' = DOMAIN metrics
       /\ \A r \in LastReports : r.ConnectionID \in DOMAIN metrics
       /\ \A id \in DOMAIN metrics :
            LET e == metrics[id]
                mine == {r \in LastReports : r.ConnectionID = id}
            IN IF HasDelta(e)
               THEN /\ Cardinality(mine) = 1
                    /\ \A r \in mine : /\ r.RequestCount = e.RequestCount
                                       /\ r.ErrorCount = e.ErrorCount
                                       /\ r.AuthFailures = e.AuthFailures
                    /\ metrics'[id].RequestCount = 0
                    /\ metrics'[id].ErrorCount = 0
                    /\ metrics'[id].AuthFailures = 0
                    /\ metrics'[id].Latencies = <<>>
                    /\ metrics'[id].LastRequestAt = e.LastRequestAt
               ELSE /\ mine = {}
                    /\ metrics'[id] = e]_vars

\* C22 witness: tenant A was reported with two requests, one of them failed,
\* the last one after the clock had advanced; its deltas are zero again, the
\* time of its last request is kept, and tenant B was not reported
C22_Witness ==
  /\ wire.req.kind = "metrics"
  /\ \E r \in wire.req.metrics :
       r.ConnectionID = "A" /\ r.RequestCount = 2 /\ r.ErrorCount = 1
  /\ \A r \in wire.req.metrics : r.ConnectionID # "B"
  /\ "B" \in DOMAIN metrics
  /\ metrics["A"].RequestCount = 0
  /\ metrics["A"].Latencies = <<>>
  /\ metrics["A"].LastRequestAt = TickStep

(* ------------------- the P95 of a latency ring -------------------------- *)
\* rings of n samples: the values 1..n in an order that is not sorted, and
\* the same with every value twice
Scrambled(n) == [k \in 1..n |-> ((k * 11) % n) + 1]
Paired(n) == [k \in 1..n |-> (((k * 11) % n) \div 2) + 1]

\* the sizes around which the index 0.95 n leaves the last sample, and the
\* full ring
RingSizes == {19, 20, 21, 39, 40, 41, LatencyCap}

\* every ring of up to three samples, and the scrambled ones
Rings ==
  UNION {[1..n -> 1..3] : n \in 0..3}
    \cup {Scrambled(n) : n \in RingSizes} \cup {Paired(n) : n \in RingSizes}

\* the entry of a tenant that served the requests of ring l, and was refused
\* fails times
EntryOf(l, fails) ==
  [RequestCount |-> Len(l), ErrorCount |-> 0, AuthFailures |-> fails,
   Latencies |-> l, LastRequestAt |-> IF l = <<>> THEN -1 ELSE 0]

\* the gateway with one metrics entry drawn from the rings
InitP95 ==
  /\ now = 0
  /\ pepper = <<>>
  /\ version = 0
  /\ connections = [d \in Hosts |-> Nil]
  /\ conns = <<>>
  /\ metrics \in {("A" :> EntryOf(l, fails)) : l \in Rings, fails \in {0, 1}}
  /\ sessions = <<>>
  /\ sess = <<>>
  /\ rq = [p \in Procs |-> IdleReq]
  /\ applied = {}
  /\ admitted = [c \in 1..MaxConns |-> <<>>]
  /\ nreq = 0
  /\ napply = 0
  /\ poller = NewPoller
  /\ wire = [req |-> NoRequest, resp |-> NoReply, tok |-> EnvToken, ticks |-> 0]
  /\ lk = NoLocks

NextP95 == ReportMetrics

SpecP95 == InitP95 /\ [][NextP95]_vars

\* v stands at 0-based index k of the samples of l in ascending order
StandsAt(v, l, k) ==
  /\ \E i \in 1..Len(l) : l[i] = v
  /\ Cardinality({i \in 1..Len(l) : l[i] < v}) <= k
  /\ Cardinality({i \in 1..Len(l) : l[i] <= v}) >= k + 1

\* C23: the P95 reported for a tenant with n >= 1 samples is the element at
\* index min(floor(0.95 n), n - 1) of the samples in ascending order, and 0
\* for a tenant with an empty ring
C23_P95Index ==
  [][(wire'.ticks # wire.ticks /\ wire'.req.kind # "sync") =>
       \A r \in LastReports :
         LET l == metrics[r.ConnectionID].Latencies
             n == Len(l)
             floor == (95 * n) \div 100
         IN IF n = 0 THEN r.P95LatencyMs = 0
            ELSE StandsAt(r.P95LatencyMs, l, IF floor < n - 1 THEN floor ELSE n - 1)]_vars

\* C23 witness: a ring of 41 distinct samples was reported with the sample
\* that has 38 smaller ones, which is not the largest
C23_Witness ==
  /\ wire.req.kind = "metrics"
  /\ \E r \in wire.req.metrics :
       r.RequestCount = 41 /\ r.P95LatencyMs = 39 /\ r.AuthFailures = 0

(* ------------------- the dispatch table of the handler ------------------ *)
Call(method, hasID, id, jsonrpc) ==
  Frame("object", hasID, id, jsonrpc, method, "", "ok", FALSE)

Initialize(id, pv, params, hasPV) ==
  WithVersion(Frame("object", TRUE, id, "2.0", "initialize", pv, params, FALSE), hasPV)

ToolsCall(id, params, toolErr) ==
  Frame("object", TRUE, id, "2.0", "tools/call", "", params, toolErr)

Methods ==
  {"initialize", "initialized", "ping", "tools/list", "tools/call",
   "notifications/cancelled", "resources/list", ""}

\* a protocol version that is not the advertised one
OtherVersion == "2023-01-01"

\* every method with a number and a string as id, frames without id, frames
\* with a missing and a wrong jsonrpc version, bodies that do not parse, and
\* the variants of initialize and tools/call
DispatchFrames ==
  {Call(m, TRUE, id, "2.0") : m \in Methods, id \in {IdInt(1), IdStr("r")}}
    \cup {Call(m, FALSE, IdNull, "2.0") : m \in {"ping", "initialized"}}
    \cup {Call(m, TRUE, IdInt(1), v) : m \in {"ping", "initialized"}, v \in {"", "1.0"}}
    \cup {Invalid, Mistyped(TRUE)}
    \cup {Initialize(IdInt(1), ProtocolVersion, "ok", TRUE),
          Initialize(IdStr("r"), OtherVersion, "ok", TRUE),
          Initialize(IdInt(1), "", "ok", TRUE),
          Initialize(IdInt(1), OtherVersion, "bad", TRUE)}
    \cup {ToolsCall(IdInt(1), "bad", FALSE), ToolsCall(IdStr("r"), "ok", TRUE),
          ToolsCall(IdInt(1), "ok", FALSE)}

\* bound: the requests of a run with two clients, the GET /sse included
MaxCalls == 2

\* goroutine 1 serves the GET /sse of a client of tenant A, goroutine 2 the
\* frames it POSTs to /message
NextTable ==
  \/ ApplyConfig(CfgBase)
  \/ StartRequestWithin(MaxCalls, 1, "a", "GET /sse", Bearer(KeyOld), NoSessionID, NoFrame)
  \/ \E id \in SessionIDs, f \in DispatchFrames :
       StartRequestWithin(MaxCalls, 2, "a", "POST /message", Bearer(KeyOld), id, f)
  \/ \E p \in Procs :
       \/ AuthStart(p)
       \/ VerifyPrimary(p)
       \/ RateRead(p)
       \/ RateDecide(p)
       \/ SSECheck(p)
       \/ SSECreate(p)
       \/ SSEIncrement(p)
       \/ SSEEndpoint(p)
       \/ SSEWriteMessage(p)
       \/ MsgLookup(p)
       \/ MsgHandle(p, 1)
       \/ MsgEnqueue(p)

SpecTable == Init /\ [][NextTable]_vars

\* goroutine p hands its frame to HandleMessage in this step
Handles(p) == rq[p].pc = "msg_handle" /\ rq'[p].pc = "msg_enqueue"

\* the frame parses into a request with the right jsonrpc version
WellFormed(f) == f.json = "object" /\ f.jsonrpc = "2.0"

\* the id the frame carries, null when it carries none
IdOf(f) == IF f.hasID THEN f.id ELSE IdNull

Accepted(r, id) ==
  /\ r.kind = "result"
  /\ r.ID = id
  /\ r.result.type = "InitializeResult"
  /\ r.result.ProtocolVersion = ProtocolVersion
  /\ r.result.Capabilities.Tools = EmptyObject
  /\ r.result.ServerInfo.Name = "dublyo-mcp-gateway"

\* the response that refuses an initialize with id
Refused(r, id) == r.kind = "error" /\ r.code = InvalidParams /\ r.ID = id

\* C25 as stated: an initialize whose protocolVersion is the advertised one
\* is answered with the same id, the advertised version, the tools
\* capability and the server info; an initialize whose params carry another
\* protocol version string is answered -32602 with the same id
C25_VersionChecked ==
  [][\A p \in Procs :
       (Handles(p) /\ WellFormed(rq[p].frame) /\ rq[p].frame.method = "initialize") =>
         LET f == rq[p].frame
             r == rq'[p].resp
         IN /\ (f.params = "ok" /\ f.pv = ProtocolVersion) => Accepted(r, IdOf(f))
            /\ (f.hasPV /\ f.pv # ProtocolVersion) => Refused(r, IdOf(f))]_vars

\* what handleInitialize does: only params that decode and carry a
\* non-empty protocol version string other than the advertised one are
\* refused; an initialize whose version is absent or empty, or whose params
\* do not decode, is answered like a matching one
InitializeAsCoded ==
  [][\A p \in Procs :
       (Handles(p) /\ WellFormed(rq[p].frame) /\ rq[p].frame.method = "initialize") =>
         LET f == rq[p].frame
             r == rq'[p].resp
         IN IF f.params = "ok" /\ f.pv # "" /\ f.pv # ProtocolVersion
            THEN Refused(r, IdOf(f))
            ELSE Accepted(r, IdOf(f))]_vars

\* an initialize whose params carry another version and do not decode was
\* accepted
MismatchAccepted ==
  /\ rq[2].pc = "msg_enqueue"
  /\ rq[2].frame = Initialize(IdInt(1), OtherVersion, "bad", TRUE)
  /\ rq[2].resp.kind = "result"

ShortRead == BufSize \div 4

\* bodies at the cap, one byte over it and more than a buffer over it, read
\* in full and in short reads, the end of the stream reported with the last
\* bytes or by a Read of its own
BodyFrames ==
  {WithBody(Ping(TRUE), n, c, e) :
     n \in {BodyLimit, BodyLimit + 1, BodyLimit + BufSize + 1},
     c \in {BufSize, ShortRead}, e \in BOOLEAN}

\* goroutine 1 serves the GET /sse of a client of tenant A, goroutine 2 the
\* bodies it POSTs to /message and to /mcp
NextBody ==
  \/ ApplyConfig(CfgBase)
  \/ StartRequest(1, "a", "GET /sse", Bearer(KeyOld), NoSessionID, NoFrame)
  \/ \E id \in SessionIDs, f \in BodyFrames :
       StartRequest(2, "a", "POST /message", Bearer(KeyOld), id, f)
  \/ \E f \in BodyFrames :
       StartRequest(2, "a", "POST /mcp", Bearer(KeyOld), NoSessionID, f)
  \/ \E p \in Procs :
       \/ AuthStart(p)
       \/ VerifyPrimary(p)
       \/ RateRead(p)
       \/ RateDecide(p)
       \/ SSECheck(p)
       \/ SSECreate(p)
       \/ SSEIncrement(p)
       \/ SSEEndpoint(p)
       \/ SSEWriteMessage(p)
       \/ MsgLookup(p)
       \/ MsgHandle(p, 1)
       \/ MsgEnqueue(p)
       \/ McpPost(p, 1)

SpecBody == Init /\ [][NextBody]_vars

\* request p is about to read a body of more than 1 MiB on one of the two
\* JSON-RPC entry points
ReadsOversized(p) ==
  /\ rq[p].pc = "route"
  /\ rq[p].frame.len > BodyLimit
  /\ \/ rq[p].route = "POST /mcp"
     \/ /\ rq[p].route = "POST /message"
        /\ rq[p].sid # NoSessionID
        /\ Loaded(sessions, rq[p].sid)

\* C27: on POST /message and on POST /mcp every body of more than 1 MiB is
\* answered 413 and is not handed to the protocol handler, however it is
\* split across reads, also when the read that crosses the limit reports
\* the end of the stream
C27_OversizedRefused ==
  [][\A p \in Procs :
       (ReadsOversized(p) /\ rq'[p] # rq[p]) =>
         /\ rq'[p].pc = "done"
         /\ rq'[p].status = StatusRequestEntityTooLarge
         /\ rq'[p].handled = 0]_vars

\* a body of more than 1 MiB is with the protocol handler
OversizedHandled ==
  \E p \in Procs : rq[p].pc = "msg_handle" /\ rq[p].frame.len > BodyLimit

\* a body that is more than one buffer over the cap is refused however it
\* is split
FarOversizedRefused ==
  [][\A p \in Procs :
       (ReadsOversized(p) /\ rq[p].frame.len > BodyLimit + BufSize /\ rq'[p] # rq[p]) =>
         /\ rq'[p].pc = "done"
         /\ rq'[p].status = StatusRequestEntityTooLarge
         /\ rq'[p].handled = 0]_vars

(* ------------------- one decision of the rate limiter ------------------ *)
\* CfgBase with a ceiling of 2 requests a minute for B
CfgPair ==
  GatewayConfig(Pepper1, 1,
    <<ConnectionConfig("A", "a", "math", ComputedHash(Pepper1, KeyOld), <<>>, ExpiryEmpty,
                       TRUE, 1, 0, 1),
      ConnectionConfig("B", "b", "dns", ComputedHash(Pepper1, KeyB), <<>>, ExpiryEmpty,
                       TRUE, 1, 2, 0)>>)

\* one request after the other on POST /mcp of both tenants while the clock
\* advances
NextWindow ==
  \/ ApplyConfig(CfgPair)
  \/ Tick
  \/ \E h \in {<<"b", KeyB>>, <<"a", KeyOld>>} :
       StartRequest(1, h[1], "POST /mcp", Bearer(h[2]), NoSessionID, Ping(TRUE))
  \/ AuthStart(1)
  \/ VerifyPrimary(1)
  \/ RateRead(1)
  \/ RateDecide(1)
  \/ McpPost(1, 1)

SpecWindow == Init /\ [][NextWindow]_vars

\* the timestamps of l that are less than a minute before t, in their order
Recent(l, t) == SelectSeq(l, LAMBDA u : t - u < Minute)

\* C29: a decision of CheckRateLimit at time now first drops every stored
\* timestamp at or before now - 60s (one that is exactly 60s old is dropped),
\* then rejects iff the remaining count is >= the ceiling, else appends now
\* and admits; a rejected request appends nothing; the stored window never
\* holds more timestamps than the ceiling
C29_TrimThenDecide ==
  /\ [][\A p \in Procs :
          (rq[p].pc = "rate_locked" /\ rq'[p] # rq[p]) =>
            LET c == rq[p].conn
                kept == Recent(conns[c].requests, now)
                ceiling == IF conns[c].Config.RateLimit <= 0 THEN DefaultRateLimit
                           ELSE conns[c].Config.RateLimit
            IN IF Len(kept) >= ceiling
               THEN /\ rq'[p].pc = "done"
                    /\ rq'[p].status = StatusTooManyRequests
                    /\ rq'[p].handled = 0
                    /\ conns'[c].requests = kept
               ELSE /\ rq'[p].pc = "route"
                    /\ conns'[c].requests = kept \o <<now>>]_vars
  /\ [](\A c \in 1..Len(conns) :
          Len(conns[c].requests) <=
            (IF conns[c].Config.RateLimit <= 0 THEN DefaultRateLimit
             ELSE conns[c].Config.RateLimit))

\* C29 witness: with a ceiling of 2, two requests were admitted at time 0
\* and a third at time 60, when both timestamps were exactly 60s old and
\* were dropped
C29_Witness ==
  \E c \in 1..Len(conns) :
    /\ conns[c].Config.ID = "B"
    /\ conns[c].Config.RateLimit = 2
    /\ admitted[c] = <<0, 0, Minute>>
    /\ conns[c].requests = <<Minute>>

\* with a ceiling of 2, the third request within a minute was rejected and
\* left the window as it was
ThirdRejected ==
  \E c \in 1..Len(conns) :
    /\ conns[c].Config.ID = "B"
    /\ conns[c].requests = <<0, TickStep>>
    /\ rq[1].pc = "done"
    /\ rq[1].status = StatusTooManyRequests
    /\ nreq = 3

(* --------------------- a tenant built afresh --------------------------- *)
\* configurations are swapped under two clients of tenant A that attach and
\* go
NextFresh ==
  \/ \E cfg \in SwapConfigs : ApplyConfig(cfg)
  \/ \E p \in {1, 2} :
       StartRequestWithin(MaxCalls, p, "a", "GET /sse", Bearer(KeyOld), NoSessionID, NoFrame)
  \/ \E p \in Procs :
       \/ AuthStart(p)
       \/ VerifyPrimary(p)
       \/ RateRead(p)
       \/ RateDecide(p)
       \/ SSECheck(p)
       \/ SSECreate(p)
       \/ SSEIncrement(p)
       \/ SSEEndpoint(p)
       \/ SSEClientGone(p)
       \/ TeardownClose(p)
       \/ TeardownDelete(p)
       \/ TeardownDecrement(p)

SpecFresh == Init /\ [][NextFresh]_vars

\* the i-th connection of cfg is enabled and its domain is new to the
\* registry or registered with another profile selector
BuiltAfresh(cfg, i) ==
  LET cc == cfg.Connections[i]
  IN /\ cc.Enabled
     /\ \/ connections[cc.Domain] = Nil
        \/ conns[connections[cc.Domain]].Config.Profile # cc.Profile

\* the step has built a tenant with configuration cc, an empty rate window
\* and no sessions; domain d is served by a tenant built in the step, and
\* the tenant d had before is registered nowhere and is as it was
FreshTenant(d, cc) ==
  /\ \E n \in (Len(conns) + 1)..Len(conns') :
       /\ conns'[n].Config = cc
       /\ conns'[n].requests = <<>>
       /\ conns'[n].sessions = 0
  /\ connections'[d] # Nil
  /\ connections'[d] > Len(conns)
  /\ conns'[connections'[d]].Config.Domain = d
  /\ conns'[connections'[d]].requests = <<>>
  /\ conns'[connections'[d]].sessions = 0
  /\ connections[d] # Nil =>
       /\ \A e \in Hosts : connections'[e] # connections[d]
       /\ conns'[connections[d]] = conns[connections[d]]

\* the teardown of request p takes one session off the tenant the request
\* was routed to, and touches no other tenant
DecrementsOwnTenant(p) ==
  /\ conns'[rq[p].conn].sessions =
       (IF conns[rq[p].conn].sessions > 0 THEN conns[rq[p].conn].sessions - 1 ELSE 0)
  /\ \A c \in 1..Len(conns) : c # rq[p].conn => conns'[c] = conns[c]

\* C30 as stated: when ApplyConfig sees an enabled connection whose domain
\* is registered with another profile selector, or is new, it builds a
\* fresh tenant with an empty rate window and a zero session counter and
\* drops the prior entry of the domain; sessions attached to the prior entry
\* keep decrementing the prior entry's counter, not the fresh one's
C30_FreshOnProfileChange ==
  /\ [][\A cfg \in SwapConfigs :
          ApplyConfig(cfg) =>
            \A i \in 1..Len(cfg.Connections) :
              BuiltAfresh(cfg, i) =>
                FreshTenant(cfg.Connections[i].Domain, cfg.Connections[i])]_vars
  /\ [][\A p \in Procs :
          (rq[p].pc = "td_dec" /\ rq'[p] # rq[p]) => DecrementsOwnTenant(p)]_vars

\* C30, amended: when ApplyConfig sees an enabled connection with a profile
\* selector the registry knows whose domain is registered with another
\* profile selector, or is new, it builds a fresh tenant with an empty rate
\* window and a zero session counter and drops the prior entry of the
\* domain; with a selector the registry does not know the prior entry is
\* dropped and no tenant is built; sessions attached to the prior entry keep
\* decrementing the prior entry's counter, not the fresh one's
C30_FreshOnKnownProfileChange ==
  /\ [][\A cfg \in SwapConfigs :
          ApplyConfig(cfg) =>
            \A i \in 1..Len(cfg.Connections) :
              BuiltAfresh(cfg, i) =>
                IF cfg.Connections[i].Profile \in KnownProfiles
                THEN FreshTenant(cfg.Connections[i].Domain, cfg.Connections[i])
                ELSE connections'[cfg.Connections[i].Domain] = Nil]_vars
  /\ [][\A p \in Procs :
          (rq[p].pc = "td_dec" /\ rq'[p] # rq[p]) => DecrementsOwnTenant(p)]_vars

\* C30 witness: tenant A was rebuilt under an attached session and has a
\* session of its own; the teardown of the first session is about to
\* decrement the counter of the prior entry
C30_Witness ==
  \E p \in Procs :
    /\ rq[p].pc = "td_dec"
    /\ connections["a"] # Nil
    /\ connections["a"] # rq[p].conn
    /\ conns[connections["a"]].Config.Profile # conns[rq[p].conn].Config.Profile
    /\ conns[connections["a"]].requests # <<>>
    /\ conns[connections["a"]].sessions = 1
    /\ conns[rq[p].conn].sessions = 1

(* --------------------------- the latency ring -------------------------- *)
\* more requests than the ring holds
RingBurst == LatencyCap + 2

\* tenant A with a rate limit that lets the whole burst through
CfgRing ==
  GatewayConfig(Pepper1, 1,
    <<ConnectionConfig("A", "a", "math", ComputedHash(Pepper1, KeyOld), <<>>, ExpiryEmpty,
                       TRUE, 1, RingBurst, 1)>>)

\* the requests after which the reporter's ticker may fire: in the middle
\* of the burst and when the ring is full
SnapshotAfter == {LatencyCap \div 2, LatencyCap + 1}

\* one POST /mcp of tenant A after the other, the n-th taking n milliseconds,
\* and snapshots in between
NextRing ==
  \/ ApplyConfig(CfgRing)
  \/ StartRequestWithin(RingBurst, 1, "a", "POST /mcp", Bearer(KeyOld), NoSessionID, Ping(TRUE))
  \/ AuthStart(1)
  \/ VerifyPrimary(1)
  \/ RateRead(1)
  \/ RateDecide(1)
  \/ McpPost(1, nreq)
  \/ (nreq \in SnapshotAfter /\ ReportMetrics)

SpecRing == Init /\ [][NextRing]_vars

\* the number of the request recorded last
RecordedLast == IF rq[1].pc = "done" THEN nreq ELSE nreq - 1

\* C33: in every reachable state each tenant's latency ring holds at most 100
\* samples, and after k calls of RecordRequest since the last snapshot it
\* holds exactly the most recent min(k, 100) samples in arrival order
C33_RingKeepsLast ==
  \A id \in DOMAIN metrics :
    LET ring == metrics[id].Latencies
        k == metrics[id].RequestCount
    IN /\ Len(ring) <= 100
       /\ Len(ring) = (IF k < 100 THEN k ELSE 100)
       /\ \A i \in 1..Len(ring) : ring[i] = RecordedLast - Len(ring) + i

\* C33 witness: 102 requests were recorded and the ring holds the samples
\* of the last 100 of them, the 3rd to the 102nd
C33_Witness ==
  /\ "A" \in DOMAIN metrics
  /\ metrics["A"].RequestCount = 102
  /\ Len(metrics["A"].Latencies) = 100
  /\ metrics["A"].Latencies[1] = 3
  /\ metrics["A"].Latencies[100] = 102

\* a snapshot in the middle of the burst has emptied the ring, and the ring
\* holds the samples recorded since
RingAfterSnapshot ==
  /\ "A" \in DOMAIN metrics
  /\ nreq = 60
  /\ metrics["A"].RequestCount = 10
  /\ metrics["A"].Latencies[1] = 51

(* ----------------------- the count of errors --------------------------- *)
\* tool calls that fail in the profile, succeed, and do not decode, and a
\* request for a method that does not exist
ErrFrames ==
  {ToolsCall(IdInt(1), "ok", TRUE), ToolsCall(IdInt(1), "ok", FALSE),
   ToolsCall(IdInt(1), "bad", FALSE), UnknownMethod}

\* goroutine 1 serves the GET /sse of a client of tenant A, goroutine 2 the
\* frames it POSTs to /message and to /mcp
NextErr ==
  \/ ApplyConfig(CfgBase)
  \/ StartRequest(1, "a", "GET /sse", Bearer(KeyOld), NoSessionID, NoFrame)
  \/ \E id \in SessionIDs, f \in ErrFrames :
       StartRequest(2, "a", "POST /message", Bearer(KeyOld), id, f)
  \/ \E f \in ErrFrames :
       StartRequest(2, "a", "POST /mcp", Bearer(KeyOld), NoSessionID, f)
  \/ \E p \in Procs :
       \/ AuthStart(p)
       \/ VerifyPrimary(p)
       \/ RateRead(p)
       \/ RateDecide(p)
       \/ SSECheck(p)
       \/ SSECreate(p)
       \/ SSEIncrement(p)
       \/ SSEEndpoint(p)
       \/ SSEWriteMessage(p)
       \/ MsgLookup(p)
       \/ MsgHandle(p, 1)
       \/ MsgEnqueue(p)
       \/ McpPost(p, 1)

SpecErr == Init /\ [][NextErr]_vars

\* the frame of request p goes through HandleMessage in this step
Processed(p) == rq'[p].handled = rq[p].handled + 1

\* the frame is a tools/call for which the profile returns an error
ToolFails(f) ==
  f.json = "object" /\ f.jsonrpc = "2.0" /\ f.method = "tools/call" /\ f.params = "ok"
    /\ f.toolErr

\* the errors counted for the tenant of request p, before the step
ErrorsOf(m, p) == m[conns[rq[p].conn].Config.ID].ErrorCount

\* C34: every tools/call processed on POST /message or POST /mcp for which
\* the profile returned an error adds exactly one to the error count of the
\* tenant
C34_ToolErrorsCounted ==
  [][\A p \in Procs :
       (Processed(p) /\ ToolFails(rq[p].frame)) =>
         ErrorsOf(metrics', p) = ErrorsOf(metrics, p) + 1]_vars

\* what the two entry points count instead: the responses that carry a
\* JSON-RPC error; a tool call that fails in the profile adds nothing
EnvelopeErrorsCounted ==
  [][\A p \in Procs :
       Processed(p) =>
         LET f == rq[p].frame
             failed == \/ f.json # "object"
                       \/ f.jsonrpc # "2.0"
                       \/ f.method = "resources/list"
                       \/ f.method = "tools/call" /\ f.params = "bad"
         IN ErrorsOf(metrics', p) = ErrorsOf(metrics, p) + (IF failed THEN 1 ELSE 0)]_vars

\* a tool call that failed in the profile was processed on POST /message, it
\* was counted as a request and not as an error
ToolFailureUncounted ==
  /\ rq[2].pc = "msg_enqueue"
  /\ ToolFails(rq[2].frame)
  /\ rq[2].resp.kind = "result"
  /\ rq[2].resp.result.IsError
  /\ metrics["A"].RequestCount = 1
  /\ metrics["A"].ErrorCount = 0

(* -------------------- sessions across tenants -------------------------- *)
\* goroutine 1 serves the GET /sse of a client of tenant A; goroutine 2
\* serves requests that arrive on B's domain and name a session id: a POST
\* /message with B's credential and a DELETE /mcp
NextCross ==
  \/ ApplyConfig(CfgBase)
  \/ StartRequestWithin(MaxCalls, 1, "a", "GET /sse", Bearer(KeyOld), NoSessionID, NoFrame)
  \/ \E id \in SessionIDs \cup {UnknownSessionID} :
       \/ StartRequestWithin(MaxCalls, 2, "b", "POST /message", Bearer(KeyB), id, Ping(TRUE))
       \/ StartRequestWithin(MaxCalls, 2, "b", "DELETE /mcp", NoAuthorization, id, NoFrame)
  \/ \E p \in Procs :
       \/ AuthStart(p)
       \/ VerifyPrimary(p)
       \/ RateRead(p)
       \/ RateDecide(p)
       \/ SSECheck(p)
       \/ SSECreate(p)
       \/ SSEIncrement(p)
       \/ SSEEndpoint(p)
       \/ SSEWriteMessage(p)
       \/ SSEClientGone(p)
       \/ SSEDoneSeen(p)
       \/ TeardownClose(p)
       \/ TeardownDelete(p)
       \/ TeardownDecrement(p)
       \/ MsgLookup(p)
       \/ MsgHandle(p, 1)
       \/ MsgEnqueue(p)
       \/ DeleteLoad(p)
       \/ DeleteClose(p)
       \/ DeleteDelete(p)

SpecCross == Init /\ [][NextCross]_vars

\* the tenant on whose domain request p arrived
ArrivedOn(p) == conns[rq[p].conn].Config.ID

\* C36: a request that arrives on the domain of tenant A, a POST /message
\* authenticated with A's credential or a DELETE /mcp, never enqueues a
\* payload onto, and never terminates, a session that belongs to another
\* tenant, also when it names that session's id
C36_SessionsIsolated ==
  [][\A p \in Procs :
       /\ (rq[p].pc = "msg_enqueue" /\ rq'[p] # rq[p]
             /\ sess'[rq[p].session].Messages # sess[rq[p].session].Messages) =>
            sess[rq[p].session].ConnID = ArrivedOn(p)
       /\ (rq[p].pc = "del_close" /\ rq'[p] # rq[p]
             /\ sess'[rq[p].session].done # sess[rq[p].session].done) =>
            sess[rq[p].session].ConnID = ArrivedOn(p)
       /\ (rq[p].pc = "del_delete" /\ sessions' # sessions) =>
            sess[rq[p].session].ConnID = ArrivedOn(p)]_vars

\* a session of tenant A holds a payload that a request on B's domain
\* enqueued
ForeignPayload ==
  \E s \in 1..Len(sess) :
    /\ sess[s].ConnID = "A"
    /\ sess[s].Messages # <<>>
    /\ rq[2].pc = "done"
    /\ rq[2].route = "POST /message"
    /\ rq[2].status = StatusAccepted
    /\ "B" \in DOMAIN metrics
    /\ metrics["B"].RequestCount = 1

\* a session of tenant A was terminated by a DELETE on B's domain that
\* carried no credential
ForeignDelete ==
  \E s \in 1..Len(sess) :
    /\ sess[s].ConnID = "A"
    /\ sess[s].done
    /\ sessions = <<>>
    /\ rq[2].pc = "done"
    /\ rq[2].route = "DELETE /mcp"
    /\ rq[2].status = StatusNoContent
    /\ rq[1].pc = "sse_loop"

(* ------------------------------ the locks ------------------------------ *)
\* Each call on the Gateway as the mutex operations it performs, in order.
LockOp(o, m, c) == [op |-> o, m |-> m, c |-> c]

GetConnectionLocks == <<LockOp("RLock", "mu", 0), LockOp("RUnlock", "mu", 0)>>

VersionLocks == <<LockOp("RLock", "mu", 0), LockOp("RUnlock", "mu", 0)>>

VerifyAPIKeyLocks == <<LockOp("RLock", "mu", 0), LockOp("RUnlock", "mu", 0)>>

CheckRateLimitLocks(c) == <<LockOp("Lock", "conn", c), LockOp("Unlock", "conn", c)>>

CheckConcurrencyLocks(c) == <<LockOp("Lock", "conn", c), LockOp("Unlock", "conn", c)>>

IncrementSessionsLocks(c) == <<LockOp("Lock", "conn", c), LockOp("Unlock", "conn", c)>>

DecrementSessionsLocks(c) == <<LockOp("Lock", "conn", c), LockOp("Unlock", "conn", c)>>

RecordRequestLocks == <<LockOp("Lock", "metricsMu", 0), LockOp("Unlock", "metricsMu", 0)>>

RecordAuthFailureLocks == <<LockOp("Lock", "metricsMu", 0), LockOp("Unlock", "metricsMu", 0)>>

\* ApplyConfig's loop: every enabled entry that is not skipped takes g.metricsMu
\* to ensure its metrics entry, while g.mu is held for writing
RECURSIVE EnsureMetricsLocks(_)
EnsureMetricsLocks(ccs) ==
  IF ccs = <<>> THEN <<>>
  ELSE (IF Head(ccs).Enabled /\ Head(ccs).Profile \in KnownProfiles
          THEN <<LockOp("Lock", "metricsMu", 0), LockOp("Unlock", "metricsMu", 0)>>
          ELSE <<>>)
       \o EnsureMetricsLocks(Tail(ccs))

ApplyConfigLocks(cfg) ==
  <<LockOp("Lock", "mu", 0)>> \o EnsureMetricsLocks(cfg.Connections)
    \o <<LockOp("Unlock", "mu", 0)>>

\* CollectAndResetMetrics's loop: the session counter of each reported tenant
\* is read under its conn.mu, while g.metricsMu and g.mu (reading) are held
RECURSIVE ActiveSessionsLocks(_)
ActiveSessionsLocks(cs) ==
  IF cs = <<>> THEN <<>>
  ELSE <<LockOp("Lock", "conn", Head(cs)), LockOp("Unlock", "conn", Head(cs))>>
       \o ActiveSessionsLocks(Tail(cs))

CollectAndResetMetricsLocks(cs) ==
  <<LockOp("Lock", "metricsMu", 0), LockOp("RLock", "mu", 0)>> \o ActiveSessionsLocks(cs)
    \o <<LockOp("RUnlock", "mu", 0), LockOp("Unlock", "metricsMu", 0)>>

\* the calls a request handler makes, on any Connection object
HandlerCalls ==
  {GetConnectionLocks, VerifyAPIKeyLocks, RecordRequestLocks, RecordAuthFailureLocks}
    \cup UNION {{CheckRateLimitLocks(c), CheckConcurrencyLocks(c),
                 IncrementSessionsLocks(c), DecrementSessionsLocks(c)} : c \in 1..MaxConns}

\* the tenants a snapshot reads: any tenants, each once, in the map's order
TenantOrders ==
  {cs \in UNION {[1..k -> 1..MaxConns] : k \in 0..MaxConns} :
     \A i, j \in 1..Len(cs) : i # j => cs[i] # cs[j]}

\* syncConfig reads the version for its request header and applies what a 200
\* carries; reportMetrics collects
JobCalls(job) ==
  IF job = "syncConfig"
    THEN {VersionLocks} \cup {ApplyConfigLocks(cfg) : cfg \in {CfgBase, CfgSwap, CfgOdd}}
    ELSE {CollectAndResetMetricsLocks(cs) : cs \in TenantOrders}

InCall(q) == lk.prog[q] # <<>>

\* sync.Mutex and sync.RWMutex: whether the operation returns now.  A reader
\* waits while a writer holds g.mu or waits for it.
Returns(o) ==
  CASE o.op = "Lock" /\ o.m = "mu" -> lk.mu.w = Nil /\ lk.mu.r = {}
    [] o.op = "RLock" -> lk.mu.w = Nil /\ lk.mu.pend = {}
    [] o.op = "Lock" /\ o.m = "metricsMu" -> lk.metricsMu = Nil
    [] o.op = "Lock" /\ o.m = "conn" -> lk.conn[o.c] = Nil
    [] OTHER -> TRUE

CanAdvance(q) == InCall(q) /\ Returns(Head(lk.prog[q]))

NotLocks == <<now, pepper, version, connections, conns, metrics, sessions, sess, rq,
              applied, admitted, nreq, napply, poller, wire>>

\* a request handler enters one of its calls
HandlerCall(p) ==
  /\ p \in Procs
  /\ ~InCall(p)
  /\ \E ops \in HandlerCalls : lk' = [lk EXCEPT !.prog[p] = ops]
  /\ UNCHANGED NotLocks

\* a ticker fires and the goroutine that serves it is in the select
PollerCall(q) ==
  /\ ~InCall(q)
  /\ \E job \in Jobs :
       /\ q = GoroutineOf(job)
       /\ \E ops \in JobCalls(job) : lk' = [lk EXCEPT !.prog[q] = ops]
  /\ UNCHANGED NotLocks

\* RWMutex.Lock announces the writer and waits for the readers to leave
WriterWaits(q) ==
  /\ InCall(q)
  /\ Head(lk.prog[q]) = LockOp("Lock", "mu", 0)
  /\ ~Returns(Head(lk.prog[q]))
  /\ q \notin lk.mu.pend
  /\ lk' = [lk EXCEPT !.mu.pend = @ \cup {q}]
  /\ UNCHANGED NotLocks

Acquire(q) ==
  /\ CanAdvance(q)
  /\ LET o == Head(lk.prog[q])
         rest == [lk EXCEPT !.prog[q] = Tail(@)]
     IN /\ o.op \in {"Lock", "RLock"}
        /\ lk' = CASE o.op = "RLock" -> [rest EXCEPT !.mu.r = @ \cup {q}]
                   [] o.m = "mu" -> [rest EXCEPT !.mu.w = q, !.mu.pend = @ \ {q}]
                   [] o.m = "metricsMu" -> [rest EXCEPT !.metricsMu = q]
                   [] OTHER -> [rest EXCEPT !.conn[o.c] = q]
  /\ UNCHANGED NotLocks

Release(q) ==
  /\ InCall(q)
  /\ LET o == Head(lk.prog[q])
         rest == [lk EXCEPT !.prog[q] = Tail(@)]
     IN /\ o.op \in {"Unlock", "RUnlock"}
        /\ lk' = CASE o.op = "RUnlock" -> [rest EXCEPT !.mu.r = @ \ {q}]
                   [] o.m = "mu" -> [rest EXCEPT !.mu.w = Nil]
                   [] o.m = "metricsMu" -> [rest EXCEPT !.metricsMu = Nil]
                   [] OTHER -> [rest EXCEPT !.conn[o.c] = Nil]
  /\ UNCHANGED NotLocks

NextLock ==
  \E q \in Lockers :
    \/ HandlerCall(q)
    \/ PollerCall(q)
    \/ WriterWaits(q)
    \/ Acquire(q)
    \/ Release(q)

SpecLock == Init /\ [][NextLock]_vars

\* C37: the locks are deadlock-free: whenever some goroutine is inside a call on
\* the Gateway, some goroutine inside a call can complete its next lock operation,
\* so no set of goroutines is ever left waiting on one another
C37_LocksDeadlockFree ==
  (\E q \in DOMAIN lk.prog : lk.prog[q] # <<>>)
    => \E q \in DOMAIN lk.prog : lk.prog[q] # <<>> /\ Returns(Head(lk.prog[q]))

\* the snapshot holds g.metricsMu and g.mu for reading and waits for a tenant's
\* mutex that a handler holds, while another handler waits for g.metricsMu
C37_Witness ==
  /\ lk.metricsMu = PollerProc
  /\ PollerProc \in lk.mu.r
  /\ InCall(PollerProc) /\ ~CanAdvance(PollerProc)
  /\ \E p \in Procs : InCall(p) /\ ~CanAdvance(p)

\* the writer holds g.mu and waits for g.metricsMu while a reader waits for g.mu
WriterHoldsReadersWait ==
  /\ lk.mu.w = PollerProc
  /\ InCall(PollerProc) /\ ~CanAdvance(PollerProc)
  /\ \E p \in Procs : InCall(p) /\ Head(lk.prog[p]).op = "RLock"

\* a mutex is held by at most the goroutine recorded, and a writer excludes readers
LocksExclusive ==
  /\ lk.mu.w # Nil => lk.mu.r = {}
  /\ \A q \in DOMAIN lk.prog :
       (lk.mu.w = q \/ q \in lk.mu.r \/ lk.metricsMu = q \/ \E c \in 1..MaxConns : lk.conn[c] = q)
         => InCall(q)

(* ------------------- the metrics under their mutex --------------------- *)
\* RecordRequest, RecordAuthFailure and CollectAndResetMetrics step by step:
\* the mutex operations, and between them the reads and writes of the entry.
NoCounts == [RequestCount |-> 0, ErrorCount |-> 0, AuthFailures |-> 0]

Counts(e) ==
  [RequestCount |-> e.RequestCount, ErrorCount |-> e.ErrorCount,
   AuthFailures |-> e.AuthFailures]

Plus(a, b) ==
  [RequestCount |-> a.RequestCount + b.RequestCount,
   ErrorCount |-> a.ErrorCount + b.ErrorCount,
   AuthFailures |-> a.AuthFailures + b.AuthFailures]

TallyOf(t, id) == IF id \in DOMAIN t THEN t[id] ELSE NoCounts

\* what one event adds
EventCounts(kind) ==
  CASE kind = "request" -> [RequestCount |-> 1, ErrorCount |-> 0, AuthFailures |-> 0]
    [] kind = "error" -> [RequestCount |-> 1, ErrorCount |-> 1, AuthFailures |-> 0]
    [] OTHER -> [RequestCount |-> 0, ErrorCount |-> 0, AuthFailures |-> 1]

\* a RecordRequest that does not take the mutex
RecordRequestUnguarded(connID, isError) ==
  <<LockOp("load", connID, 0), LockOp(IF isError THEN "error" ELSE "request", connID, 0)>>

\* RecordRequest: m is looked up and its counters are incremented in place,
\* between Lock and the deferred Unlock
RecordRequestSteps(connID, isError) ==
  <<LockOp("Lock", "metricsMu", 0),
    LockOp("load", connID, 0), LockOp(IF isError THEN "error" ELSE "request", connID, 0),
    LockOp("Unlock", "metricsMu", 0)>>

RecordAuthFailureSteps(connID) ==
  <<LockOp("Lock", "metricsMu", 0),
    LockOp("load", connID, 0), LockOp("authfail", connID, 0),
    LockOp("Unlock", "metricsMu", 0)>>

\* the registered Connection with that id, Nil when there is none
ConnOf(id) ==
  LET mine == {c \in {connections[h] : h \in {d \in Hosts : connections[d] # Nil}} :
                 conns[c].Config.ID = id}
  IN IF mine = {} THEN Nil ELSE CHOOSE c \in mine : TRUE

\* the body of CollectAndResetMetrics's loop for one entry: the report is built
\* from the counters, the session counter is read under conn.mu, the deltas are reset
RECURSIVE CollectLoop(_)
CollectLoop(ids) ==
  IF ids = <<>> THEN <<>>
  ELSE <<LockOp("read", Head(ids), 0)>>
       \o (IF ConnOf(Head(ids)) = Nil THEN <<>>
           ELSE <<LockOp("Lock", "conn", ConnOf(Head(ids))),
                  LockOp("Unlock", "conn", ConnOf(Head(ids)))>>)
       \o <<LockOp("reset", Head(ids), 0)>>
       \o CollectLoop(Tail(ids))

\* reportMetrics: CollectAndResetMetrics, then the push of what it returned
ReportMetricsSteps(ids) ==
  <<LockOp("Lock", "metricsMu", 0), LockOp("RLock", "mu", 0)>> \o CollectLoop(ids)
    \o <<LockOp("RUnlock", "mu", 0), LockOp("Unlock", "metricsMu", 0), LockOp("send", "", 0)>>

\* the orders in which range g.metrics may visit the entries
RangeOrders(m) ==
  {ids \in [1..Cardinality(DOMAIN m) -> DOMAIN m] :
     \A i, j \in 1..Len(ids) : i # j => ids[i] # ids[j]}

\* the ids of the registered tenants
RegisteredIDs == {conns[connections[h]].Config.ID : h \in {d \in Hosts : connections[d] # Nil}}

\* what follows the reset of the entry being visited (continue)
RECURSIVE AfterReset(_)
AfterReset(ops) ==
  IF ops = <<>> THEN <<>>
  ELSE IF Head(ops).op = "reset" THEN Tail(ops) ELSE AfterReset(Tail(ops))

\* a handler reaches RecordRequest or RecordAuthFailure for its tenant
RecordCall(p) ==
  /\ p \in Procs
  /\ ~InCall(p)
  /\ nreq < MaxCalls
  /\ nreq' = nreq + 1
  /\ \E id \in RegisteredIDs :
       \E ops \in {RecordRequestSteps(id, FALSE), RecordRequestSteps(id, TRUE),
                   RecordAuthFailureSteps(id)} :
         lk' = [lk EXCEPT !.prog[p] = ops]
  /\ UNCHANGED <<now, pepper, version, connections, conns, metrics, sessions, sess, rq,
                 applied, admitted, napply, poller, wire>>

\* the metrics ticker fires
CollectCall(q) ==
  /\ q = GoroutineOf("reportMetrics")
  /\ ~InCall(q)
  /\ wire.ticks < MaxTicks
  /\ \E ids \in RangeOrders(metrics) : lk' = [lk EXCEPT !.prog[q] = ReportMetricsSteps(ids)]
  /\ UNCHANGED NotLocks

\* a read or write of a metrics entry, or the push of the reports
MetricsStep(q) ==
  /\ InCall(q)
  /\ LET o == Head(lk.prog[q])
         id == o.m
         rest == [lk EXCEPT !.prog[q] = Tail(@)]
         cur == IF id \in DOMAIN metrics THEN metrics[id] ELSE ZeroMetrics
         mine == (id :> lk.loaded[q])
     IN CASE o.op = "load" ->
               /\ lk' = [rest EXCEPT !.loaded[q] = cur]
               /\ UNCHANGED <<metrics, wire>>
          [] o.op \in {"request", "error"} ->
               /\ metrics' = (id :> RecordRequest(mine, id, 1, o.op = "error", now)[id]) @@ metrics
               /\ lk' = [rest EXCEPT !.rec = (id :> Plus(TallyOf(@, id), EventCounts(o.op))) @@ @]
               /\ UNCHANGED wire
          [] o.op = "authfail" ->
               /\ metrics' = (id :> RecordAuthFailure(mine, id)[id]) @@ metrics
               /\ lk' = [rest EXCEPT !.rec = (id :> Plus(TallyOf(@, id), EventCounts(o.op))) @@ @]
               /\ UNCHANGED wire
          [] o.op = "read" ->
               /\ lk' = IF id \in Reportable(metrics)
                          THEN [rest EXCEPT
                                  !.reports = @ \cup {MetricsReport(metrics, id)},
                                  !.rep = (id :> Plus(TallyOf(@, id), Counts(cur))) @@ @]
                          ELSE [lk EXCEPT !.prog[q] = AfterReset(@)]
               /\ UNCHANGED <<metrics, wire>>
          [] o.op = "reset" ->
               /\ metrics' = (id :> ResetMetrics((id :> cur))[id]) @@ metrics
               /\ lk' = rest
               /\ UNCHANGED wire
          [] o.op = "send" ->
               /\ wire' = [wire EXCEPT
                             !.req = IF lk.reports = {} THEN NoRequest
                                     ELSE MetricsRequest(poller.token, lk.reports),
                             !.resp = NoReply,
                             !.ticks = @ + 1]
               /\ lk' = [rest EXCEPT !.reports = {}]
               /\ UNCHANGED metrics
          [] OTHER -> FALSE
  /\ UNCHANGED <<now, pepper, version, connections, conns, sessions, sess, rq,
                 applied, admitted, nreq, napply, poller>>

\* the tenants are registered by the initial sync, then handlers record events
\* for them while the Poller collects
NextTally ==
  \/ (napply = 0 /\ ApplyConfig(CfgBase))
  \/ \E q \in Lockers :
       \/ RecordCall(q)
       \/ CollectCall(q)
       \/ Acquire(q)
       \/ Release(q)
       \/ MetricsStep(q)

SpecTally == Init /\ [][NextTally]_vars

\* the deltas of an entry that have not been reported
Unreported(id) == IF id \in DOMAIN metrics THEN Counts(metrics[id]) ELSE NoCounts

\* C38: metric deltas are conserved under concurrency: whenever g.metricsMu is
\* free, for each tenant the deltas put into reports so far plus the deltas
\* still in its entry are the events recorded for it, for requests, errors and
\* auth failures alike
C38_DeltasConserved ==
  lk.metricsMu = Nil =>
    \A id \in DOMAIN lk.rec \cup DOMAIN lk.rep \cup DOMAIN metrics :
      Plus(TallyOf(lk.rep, id), Unreported(id)) = TallyOf(lk.rec, id)

\* C38 witness: two snapshots have been pushed and two events of tenant A
\* recorded around them: a failed request that was reported, and an auth
\* failure that is still in the entry
C38_Witness ==
  /\ wire.ticks = 2
  /\ TallyOf(lk.rec, "A") = [RequestCount |-> 1, ErrorCount |-> 1, AuthFailures |-> 1]
  /\ TallyOf(lk.rep, "A") = [RequestCount |-> 1, ErrorCount |-> 1, AuthFailures |-> 0]
  /\ Unreported("A") = [RequestCount |-> 0, ErrorCount |-> 0, AuthFailures |-> 1]
  /\ lk.metricsMu = Nil

\* an event is recorded while the collection is between its read and its reset
\* of another entry, and waits
RecordWaitsForCollect ==
  /\ lk.metricsMu = PollerProc
  /\ lk.reports # {}
  /\ \E p \in Procs : InCall(p) /\ ~CanAdvance(p)

(* ------------------- a domain handed to another tenant ------------------ *)
\* domain b goes to connection B2, which has B's profile selector, another
\* key, and a limit of one request a minute and one session
CfgHandover ==
  GatewayConfig(Pepper1, 6,
    <<ConnectionConfig("B2", "b", "dns", ComputedHash(Pepper1, KeyNew), <<>>, ExpiryEmpty,
                       TRUE, 1, 1, 1)>>)

\* a client of B attaches on domain b and may go; the domain is handed over;
\* a client of B2 attaches with B2's key
NextCarry ==
  \/ \E cfg \in {CfgBase, CfgHandover} : ApplyConfig(cfg)
  \/ StartRequestWithin(MaxCalls, 1, "b", "GET /sse", Bearer(KeyB), NoSessionID, NoFrame)
  \/ StartRequestWithin(MaxCalls, 2, "b", "GET /sse", Bearer(KeyNew), NoSessionID, NoFrame)
  \/ \E p \in Procs :
       \/ AuthStart(p)
       \/ VerifyPrimary(p)
       \/ VerifyPrev(p)
       \/ AuthFail(p)
       \/ RateRead(p)
       \/ RateDecide(p)
       \/ SSECheck(p)
       \/ SSECreate(p)
       \/ SSEIncrement(p)
       \/ SSEEndpoint(p)
       \/ SSEClientGone(p)
       \/ TeardownClose(p)
       \/ TeardownDelete(p)
       \/ TeardownDecrement(p)

SpecCarry == Init /\ [][NextCarry]_vars

\* C39: live state is never carried from one tenant to a different tenant: when
\* a configuration swap gives a domain to a connection whose id differs from
\* the id of the connection that held the domain, the tenant of the domain has
\* an empty rate window and a zero session counter after the swap
C39_NoCarryAcrossTenants ==
  [][napply' # napply =>
       \A d \in Hosts :
         (/\ connections[d] # Nil
          /\ connections'[d] # Nil
          /\ conns'[connections'[d]].Config.ID # conns[connections[d]].Config.ID)
           => /\ conns'[connections'[d]].requests = <<>>
              /\ conns'[connections'[d]].sessions = 0]_vars

\* what ApplyConfig does on the handover: the Connection object of the domain
\* is kept, with its rate window and its session counter, under the new id
HandoverKeepsObject ==
  [][(ApplyConfig(CfgHandover) /\ connections["b"] # Nil) =>
       /\ connections'["b"] = connections["b"]
       /\ conns'[connections'["b"]].Config.ID = "B2"
       /\ conns'[connections'["b"]].requests = conns[connections["b"]].requests
       /\ conns'[connections'["b"]].sessions = conns[connections["b"]].sessions]_vars

\* B2 holds the domain and has served no request, and its tenant has B's
\* request in its rate window and B's session in its counter
InheritedState ==
  /\ connections["b"] # Nil
  /\ conns[connections["b"]].Config.ID = "B2"
  /\ conns[connections["b"]].requests # <<>>
  /\ conns[connections["b"]].sessions = 1
  /\ rq[2].pc = "idle"

\* the only request B2's client has made is refused for the rate limit, by the
\* request B's client made before the handover
FirstRequestRefused ==
  /\ connections["b"] # Nil
  /\ conns[connections["b"]].Config.ID = "B2"
  /\ rq[2].pc = "done" /\ rq[2].status = StatusTooManyRequests
  /\ rq[1].pc \notin {"idle", "done", "panic"}
  /\ nreq = 2

(* --------------------------- the whole gateway ------------------------- *)
SampleConfigs == {CfgBase, CfgEnv, CfgRotate, CfgSwap}
SampleKeys == {KeyOld, KeyNew, KeyB, KeyWrong}

\* every operation, on every sample input
Next ==
  \/ NextLock
  \/ \E cfg \in SampleConfigs : ApplyConfig(cfg)
  \/ Tick
  \/ \E p \in Procs, host \in Hosts, route \in Routes,
        auth \in {NoAuthorization} \cup {Bearer(k) : k \in SampleKeys},
        id \in {sess[i].ID : i \in 1..Len(sess)} \cup {NoSessionID, UnknownSessionID},
        f \in SampleFrames :
       StartRequest(p, host, route, auth, id, f)
  \/ \E p \in Procs :
       \/ AuthStart(p)
       \/ VerifyPrimary(p)
       \/ VerifyPrev(p)
       \/ AuthFail(p)
       \/ RateRead(p)
       \/ RateDecide(p)
       \/ SSECheck(p)
       \/ SSECreate(p)
       \/ SSEIncrement(p)
       \/ SSEEndpoint(p)
       \/ SSEClientGone(p)
       \/ SSEDoneSeen(p)
       \/ SSEWriteMessage(p)
       \/ SSEKeepAlive(p)
       \/ TeardownClose(p)
       \/ TeardownDelete(p)
       \/ TeardownDecrement(p)
       \/ DeleteLoad(p)
       \/ DeleteClose(p)
       \/ DeleteDelete(p)
       \/ MsgLookup(p)
       \/ MsgHandle(p, 1)
       \/ MsgEnqueue(p)
       \/ McpPost(p, 1)
       \/ McpStreamOpen(p)
       \/ McpStreamGone(p)

Spec == Init /\ [][Next]_vars

====
